---- MODULE Spec2Model ----
(***************************************************************************)
(* DESY MCP server: the llms.txt index parser, the 24 hour catalog cache   *)
(* (fetchLlmsTxt / refreshCache), the tool operations built on it and the  *)
(* component name resolver (findComponentKey).                             *)
(*                                                                         *)
(* The repository holds three servers that share this code:               *)
(*   "current"  the server listed in src/replit.md (aliases, snippets)     *)
(*   "http"     src/server-desy.js                                         *)
(*   "stdio"    src/install-desy-mcp/server-desy.js                        *)
(*                                                                         *)
(* A JavaScript string is a sequence of characters; a character is a       *)
(* one-token TLA+ string.  Accented letters are written with a following   *)
(* mark ("o'" is o-acute, "n~" is n-tilde), "LF" is the line feed and      *)
(* "COMB_ACUTE" is the combining acute accent U+0301, "BT" the backtick.   *)
(***************************************************************************)
EXTENDS Integers, Sequences, FiniteSets, TLC

VARIABLES
    variant,    \* which of the three servers is running
    cache,      \* the module-level `cache` object {data, timestamp}
    clock,      \* what Date.now() returns
    calls,      \* per caller: the frame of the operation it has in flight
    out,        \* the operation that completed last (observation only)
    hist,       \* history of the cache slot (observation only)
    rs,         \* the name resolution of a tool: catalog, query, result
    ev,         \* one evaluation of a pure function: arguments, result
    http        \* the HTTP layer of src/server-desy.js: the `sessions` Map

vars == <<variant, cache, clock, calls, out, hist, rs, ev, http>>

Variants == {"current", "http", "stdio"}

(***************************************************************************)
(* JavaScript string primitives                                            *)
(***************************************************************************)
UpperChars == <<"A","B","C","D","E","F","G","H","I","J","K","L","M","N","O","P",
                "Q","R","S","T","U","V","W","X","Y","Z",
                "A'","E'","I'","O'","U'","N~","U:">>
LowerChars == <<"a","b","c","d","e","f","g","h","i","j","k","l","m","n","o","p",
                "q","r","s","t","u","v","w","x","y","z",
                "a'","e'","i'","o'","u'","n~","u:">>
BaseChars  == <<"a","b","c","d","e","f","g","h","i","j","k","l","m","n","o","p",
                "q","r","s","t","u","v","w","x","y","z",
                "a","e","i","o","u","n","u">>

WhiteSpace == {" ", "TAB", "LF", "CR"}
CombiningMarks == {"COMB_ACUTE", "COMB_TILDE", "COMB_DIAERESIS"}

IndexIn(c, seq) ==
    IF \E i \in 1..Len(seq) : seq[i] = c
    THEN CHOOSE i \in 1..Len(seq) : seq[i] = c
    ELSE 0

\* String.prototype.toLowerCase, one character
LowerChar(c) ==
    IF IndexIn(c, UpperChars) > 0 THEN LowerChars[IndexIn(c, UpperChars)] ELSE c

toLowerCase(s) == [i \in 1..Len(s) |-> LowerChar(s[i])]

\* s.normalize("NFD").replace(/[\u0300-\u036f]/g, ""), one character: the
\* base letter of a precomposed letter, nothing for a combining mark
StripChar(c) ==
    IF c \in CombiningMarks THEN <<>>
    ELSE IF IndexIn(c, LowerChars) > 0 THEN <<BaseChars[IndexIn(c, LowerChars)]>>
    ELSE IF IndexIn(c, UpperChars) > 26
         THEN <<UpperChars[IndexIn(BaseChars[IndexIn(c, UpperChars)], LowerChars)]>>
    ELSE <<c>>

RECURSIVE stripDiacritics(_)
stripDiacritics(s) ==
    IF s = <<>> THEN <<>> ELSE StripChar(Head(s)) \o stripDiacritics(Tail(s))

RECURSIVE trimStart(_)
trimStart(s) ==
    IF s # <<>> /\ Head(s) \in WhiteSpace THEN trimStart(Tail(s)) ELSE s

RECURSIVE trimEnd(_)
trimEnd(s) ==
    IF s # <<>> /\ s[Len(s)] \in WhiteSpace
    THEN trimEnd(SubSeq(s, 1, Len(s) - 1))
    ELSE s

\* String.prototype.trim
trim(s) == trimEnd(trimStart(s))

\* String.prototype.startsWith / endsWith / includes / slice(n)
startsWith(s, p) == Len(p) <= Len(s) /\ SubSeq(s, 1, Len(p)) = p
endsWith(s, p) == Len(p) <= Len(s) /\ SubSeq(s, Len(s) - Len(p) + 1, Len(s)) = p
includes(s, p) == \E i \in 1..(Len(s) - Len(p) + 1) : SubSeq(s, i, i + Len(p) - 1) = p
slice(s, n) == SubSeq(s, n + 1, Len(s))

\* first index >= from at which character c stands, 0 when there is none
IndexOfChar(s, c, from) ==
    IF \E i \in from..Len(s) : s[i] = c
    THEN CHOOSE i \in from..Len(s) : s[i] = c /\ \A j \in from..(i - 1) : s[j] # c
    ELSE 0

\* String.prototype.split("\n")
RECURSIVE split(_, _)
split(s, sep) ==
    LET i == IndexOfChar(s, sep, 1)
    IN  IF i = 0 THEN <<s>>
        ELSE <<SubSeq(s, 1, i - 1)>> \o split(SubSeq(s, i + 1, Len(s)), sep)

(***************************************************************************)
(* JavaScript objects used as maps: entries in insertion order.  A lookup  *)
(* obj[key] also finds what Object.prototype supplies.                     *)
(***************************************************************************)
ObjectPrototypeKeys ==
    { <<"c","o","n","s","t","r","u","c","t","o","r">>,
      <<"t","o","S","t","r","i","n","g">>,
      <<"v","a","l","u","e","O","f">> }

HasOwn(obj, key) == \E i \in 1..Len(obj) : obj[i].key = key
OwnIndex(obj, key) == CHOOSE i \in 1..Len(obj) : obj[i].key = key
\* obj[key] is truthy
Truthy(obj, key) == HasOwn(obj, key) \/ key \in ObjectPrototypeKeys
ObjectKeys(obj) == [i \in 1..Len(obj) |-> obj[i].key]

(***************************************************************************)
(* parseMarkdownLink and parseLlmsTxt                                      *)
(***************************************************************************)
NoLink == [found |-> FALSE, text |-> <<>>, url |-> <<>>]

\* /\[([^\]]+)\]\(([^)]+)\)/ tried at the "[" standing at index i
LinkAt(s, i) ==
    LET j == IndexOfChar(s, "]", i + 1)
        k == IF j = 0 THEN 0 ELSE IndexOfChar(s, ")", j + 2)
    IN  IF /\ s[i] = "["
           /\ j >= i + 2
           /\ j + 1 <= Len(s)
           /\ s[j + 1] = "("
           /\ k >= j + 3
        THEN [found |-> TRUE, text |-> SubSeq(s, i + 1, j - 1),
              url |-> SubSeq(s, j + 2, k - 1)]
        ELSE NoLink

\* line.trim().match(...): the leftmost match
parseMarkdownLink(line) ==
    LET s == trim(line)
        hits == {i \in 1..Len(s) : LinkAt(s, i).found}
    IN  IF hits = {} THEN NoLink
        ELSE LinkAt(s, CHOOSE i \in hits : \A h \in hits : i <= h)

\* stripped.replace(/^-\s*/, "").replace(/^\s*-\s*/, "")
BulletText(stripped) ==
    LET r1 == IF stripped # <<>> /\ Head(stripped) = "-"
              THEN trimStart(Tail(stripped)) ELSE stripped
        t  == trimStart(r1)
    IN  IF t # <<>> /\ Head(t) = "-" THEN trimStart(Tail(t)) ELSE r1

H2Marker == <<"#","#"," ">>
H3Marker == <<"#","#","#"," ">>
BulletMarker == <<"-"," ">>
IndentedBulletMarker == <<" "," ","-"," ">>
ComponentPathMarker == <<"/","c","o","m","p","o","n","e","n","t","e","-">>
MdSuffix == <<".","m","d">>
CodigoMarker == <<"-","c","o","d","i","g","o">>
DashAngularMarker == <<"-","a","n","g","u","l","a","r">>
NunjucksMarker == <<"n","u","n","j","u","c","k","s">>
AngularMarker == <<"a","n","g","u","l","a","r">>
PropiedadesMarker == <<"p","r","o","p","i","e","d","a","d","e","s">>
PropsMarker == <<"p","r","o","p","s">>
General == <<"G","e","n","e","r","a","l">>
H2DescriptionPrefix == <<"D","o","c","u","m","e","n","t","a","c","i","o'","n"," ","d","e"," ">>
H3DescriptionPrefix == <<"C","o","m","p","o","n","e","n","t","e","s"," ","d","e"," ">>

\* the parser's registers; currentCategory null is the empty string (both falsy)
ParserStart ==
    [categories |-> <<>>, components |-> <<>>, currentCategory |-> <<>>, threw |-> FALSE]

\* if (currentCategory && !categories[currentCategory]) categories[...] = {...}
RegisterCategory(st, name, prefix) ==
    IF name # <<>> /\ ~Truthy(st.categories, name)
    THEN [st EXCEPT !.currentCategory = name,
                    !.categories = Append(@,
                        [key |-> name,
                         value |-> [name |-> name,
                                    description |-> prefix \o toLowerCase(name),
                                    components |-> <<>>]])]
    ELSE [st EXCEPT !.currentCategory = name]

\* the link filter of the bullet branch
FirstSeenWins(v) == v = "current"
AcceptsLink(v, link) ==
    /\ link.found
    /\ includes(link.url, ComponentPathMarker)
    /\ (v = "current" \/ ~endsWith(link.url, MdSuffix))

\* hasHtml
HasHtmlFlag(v, url) ==
    IF v = "current"
    THEN includes(toLowerCase(url), CodigoMarker)
         /\ ~includes(toLowerCase(url), DashAngularMarker)
    ELSE includes(url, CodigoMarker)

MakeComponent(v, link, currentCategory) ==
    [name |-> link.text,
     url |-> link.url,
     description |-> link.text,
     category |-> IF currentCategory # <<>> THEN currentCategory ELSE General,
     hasHtml |-> HasHtmlFlag(v, link.url),
     hasNunjucks |-> includes(toLowerCase(link.url), NunjucksMarker),
     hasAngular |-> includes(toLowerCase(link.url), AngularMarker),
     hasProps |-> includes(toLowerCase(link.url), PropiedadesMarker)
                  \/ includes(toLowerCase(link.url), PropsMarker)]

\* const key = componentName.toLowerCase(); components[key] = component
\* (the current server: only if (!components[key]))
StoreComponent(v, components, component) ==
    LET key == toLowerCase(component.name)
    IN  IF FirstSeenWins(v)
        THEN IF Truthy(components, key) THEN components
             ELSE Append(components, [key |-> key, value |-> component])
        ELSE IF HasOwn(components, key)
             THEN [components EXCEPT ![OwnIndex(components, key)].value = component]
             ELSE Append(components, [key |-> key, value |-> component])

\* if (currentCategory && categories[currentCategory])
\*     categories[currentCategory].components.push(component)
\* a category name that only Object.prototype supplies has no components
\* array: the push raises a TypeError
PushToCategory(st, component) ==
    LET cc == st.currentCategory
    IN  IF cc # <<>> /\ Truthy(st.categories, cc)
        THEN IF HasOwn(st.categories, cc)
             THEN [st EXCEPT !.categories[OwnIndex(st.categories, cc)].value.components =
                                 Append(@, component)]
             ELSE [st EXCEPT !.threw = TRUE]
        ELSE st

IsBulletLine(v, stripped) ==
    \/ startsWith(stripped, BulletMarker)
    \/ (v = "current" /\ startsWith(stripped, IndentedBulletMarker))

BulletLink(v, stripped) ==
    IF v = "current"
    THEN parseMarkdownLink(BulletText(stripped))
    ELSE parseMarkdownLink(slice(stripped, 2))

\* one iteration of the for loop
ParseLine(v, st, line) ==
    LET stripped == trim(line)
    IN  IF st.threw \/ stripped = <<>> THEN st
        ELSE IF startsWith(stripped, H2Marker)
        THEN RegisterCategory(st, trim(slice(stripped, 3)), H2DescriptionPrefix)
        ELSE IF startsWith(stripped, H3Marker)
        THEN IF v = "current"
             THEN RegisterCategory(st, trim(slice(stripped, 4)), H3DescriptionPrefix)
             ELSE [st EXCEPT !.currentCategory = trim(slice(stripped, 4))]
        ELSE IF IsBulletLine(v, stripped)
        THEN LET link == BulletLink(v, stripped)
             IN  IF AcceptsLink(v, link)
                 THEN LET component == MakeComponent(v, link, st.currentCategory)
                      IN  PushToCategory(
                              [st EXCEPT !.components = StoreComponent(v, @, component)],
                              component)
                 ELSE st
        ELSE st

RECURSIVE ParseLines(_, _, _)
ParseLines(v, st, lines) ==
    IF lines = <<>> THEN st
    ELSE ParseLines(v, ParseLine(v, st, Head(lines)), Tail(lines))

\* parseLlmsTxt(content): {categories, components}, or threw
parseLlmsTxt(v, content) ==
    LET st == ParseLines(v, ParserStart, split(content, "LF"))
    IN  [categories |-> st.categories, components |-> st.components, threw |-> st.threw]

(***************************************************************************)
(* The alias table and the resolver: normalizeComponentName and            *)
(* findComponentKey (current server)                                       *)
(***************************************************************************)
COMPONENT_ALIASES ==
    <<
      [canonical |-> <<"b","u","t","t","o","n">>,
       aliases |-> << <<"b","u","t","t","o","n">>,
                    <<"b","o","t","o'","n">>,
                    <<"b","o","t","o","n","e","s">>,
                    <<"b","o","t","o","n">> >>],
      [canonical |-> <<"b","u","t","t","o","n","-","l","o","a","d","e","r">>,
       aliases |-> << <<"b","u","t","t","o","n","-","l","o","a","d","e","r">>,
                    <<"b","o","t","o'","n"," ","c","a","r","g","a","n","d","o">>,
                    <<"b","o","t","o","n"," ","c","a","r","g","a","n","d","o">>,
                    <<"l","o","a","d","e","r"," ","b","u","t","t","o","n">> >>],
      [canonical |-> <<"m","o","d","a","l">>,
       aliases |-> << <<"m","o","d","a","l">>,
                    <<"v","e","n","t","a","n","a"," ","m","o","d","a","l">>,
                    <<"d","i","a'","l","o","g","o">>,
                    <<"d","i","a","l","o","g","o">>,
                    <<"d","i","a","l","o","g">> >>],
      [canonical |-> <<"i","n","p","u","t">>,
       aliases |-> << <<"i","n","p","u","t">>,
                    <<"e","n","t","r","a","d","a">>,
                    <<"c","a","m","p","o">>,
                    <<"t","e","x","t"," ","i","n","p","u","t">>,
                    <<"c","a","m","p","o"," ","d","e"," ","t","e","x","t","o">> >>],
      [canonical |-> <<"s","e","l","e","c","t">>,
       aliases |-> << <<"s","e","l","e","c","t">>,
                    <<"s","e","l","e","c","t","o","r">>,
                    <<"d","e","s","p","l","e","g","a","b","l","e">>,
                    <<"d","r","o","p","d","o","w","n">> >>],
      [canonical |-> <<"c","h","e","c","k","b","o","x">>,
       aliases |-> << <<"c","h","e","c","k","b","o","x">>,
                    <<"c","a","s","i","l","l","a">>,
                    <<"c","a","s","i","l","l","a"," ","d","e"," ","v","e","r","i","f","i","c","a","c","i","o'","n">>,
                    <<"c","h","e","c","k">> >>],
      [canonical |-> <<"r","a","d","i","o">>,
       aliases |-> << <<"r","a","d","i","o">>,
                    <<"r","a","d","i","o"," ","b","u","t","t","o","n">>,
                    <<"b","o","t","o'","n"," ","d","e"," ","r","a","d","i","o">>,
                    <<"b","o","t","o","n"," ","d","e"," ","r","a","d","i","o">> >>],
      [canonical |-> <<"a","c","c","o","r","d","i","o","n">>,
       aliases |-> << <<"a","c","c","o","r","d","i","o","n">>,
                    <<"a","c","o","r","d","e","o'","n">>,
                    <<"a","c","o","r","d","e","o","n">>,
                    <<"d","e","s","p","l","e","g","a","b","l","e">> >>],
      [canonical |-> <<"a","l","e","r","t">>,
       aliases |-> << <<"a","l","e","r","t">>,
                    <<"a","l","e","r","t","a">>,
                    <<"a","v","i","s","o">>,
                    <<"n","o","t","i","f","i","c","a","c","i","o'","n">>,
                    <<"n","o","t","i","f","i","c","a","c","i","o","n">> >>],
      [canonical |-> <<"b","a","d","g","e">>,
       aliases |-> << <<"b","a","d","g","e">>,
                    <<"i","n","s","i","g","n","i","a">>,
                    <<"e","t","i","q","u","e","t","a">> >>],
      [canonical |-> <<"b","r","e","a","d","c","r","u","m","b">>,
       aliases |-> << <<"b","r","e","a","d","c","r","u","m","b">>,
                    <<"m","i","g","a","s"," ","d","e"," ","p","a","n">>,
                    <<"b","r","e","a","d","c","r","u","m","b","s">>,
                    <<"n","a","v","e","g","a","c","i","o'","n">> >>],
      [canonical |-> <<"c","a","r","d">>,
       aliases |-> << <<"c","a","r","d">>,
                    <<"t","a","r","j","e","t","a">>,
                    <<"c","a","r","d","s">>,
                    <<"t","a","r","j","e","t","a","s">> >>],
      [canonical |-> <<"c","a","r","o","u","s","e","l">>,
       aliases |-> << <<"c","a","r","o","u","s","e","l">>,
                    <<"c","a","r","r","u","s","e","l">>,
                    <<"s","l","i","d","e","r">> >>],
      [canonical |-> <<"d","r","o","p","d","o","w","n">>,
       aliases |-> << <<"d","r","o","p","d","o","w","n">>,
                    <<"d","e","s","p","l","e","g","a","b","l","e">>,
                    <<"m","e","n","u'"," ","d","e","s","p","l","e","g","a","b","l","e">>,
                    <<"m","e","n","u"," ","d","e","s","p","l","e","g","a","b","l","e">> >>],
      [canonical |-> <<"f","o","o","t","e","r">>,
       aliases |-> << <<"f","o","o","t","e","r">>,
                    <<"p","i","e"," ","d","e"," ","p","a'","g","i","n","a">>,
                    <<"p","i","e"," ","d","e"," ","p","a","g","i","n","a">> >>],
      [canonical |-> <<"h","e","a","d","e","r">>,
       aliases |-> << <<"h","e","a","d","e","r">>,
                    <<"c","a","b","e","c","e","r","a">>,
                    <<"e","n","c","a","b","e","z","a","d","o">> >>],
      [canonical |-> <<"i","c","o","n">>,
       aliases |-> << <<"i","c","o","n">>,
                    <<"i","c","o","n","o">>,
                    <<"i","c","o","n","s">>,
                    <<"i","c","o","n","o","s">> >>],
      [canonical |-> <<"l","i","n","k">>,
       aliases |-> << <<"l","i","n","k">>,
                    <<"e","n","l","a","c","e">>,
                    <<"e","n","l","a","c","e","s">>,
                    <<"l","i","n","k","s">> >>],
      [canonical |-> <<"l","i","s","t">>,
       aliases |-> << <<"l","i","s","t">>,
                    <<"l","i","s","t","a">>,
                    <<"l","i","s","t","a","s">>,
                    <<"l","i","s","t","s">> >>],
      [canonical |-> <<"m","e","n","u">>,
       aliases |-> << <<"m","e","n","u">>,
                    <<"m","e","n","u'">>,
                    <<"n","a","v","e","g","a","c","i","o'","n">>,
                    <<"n","a","v","e","g","a","c","i","o","n">>,
                    <<"n","a","v">> >>],
      [canonical |-> <<"n","a","v","b","a","r">>,
       aliases |-> << <<"n","a","v","b","a","r">>,
                    <<"b","a","r","r","a"," ","d","e"," ","n","a","v","e","g","a","c","i","o'","n">>,
                    <<"n","a","v","i","g","a","t","i","o","n"," ","b","a","r">> >>],
      [canonical |-> <<"p","a","g","i","n","a","t","i","o","n">>,
       aliases |-> << <<"p","a","g","i","n","a","t","i","o","n">>,
                    <<"p","a","g","i","n","a","c","i","o'","n">>,
                    <<"p","a","g","i","n","a","c","i","o","n">>,
                    <<"p","a","g","e","r">> >>],
      [canonical |-> <<"p","r","o","g","r","e","s","s">>,
       aliases |-> << <<"p","r","o","g","r","e","s","s">>,
                    <<"p","r","o","g","r","e","s","o">>,
                    <<"b","a","r","r","a"," ","d","e"," ","p","r","o","g","r","e","s","o">>,
                    <<"p","r","o","g","r","e","s","s"," ","b","a","r">> >>],
      [canonical |-> <<"s","p","i","n","n","e","r">>,
       aliases |-> << <<"s","p","i","n","n","e","r">>,
                    <<"c","a","r","g","a","n","d","o">>,
                    <<"l","o","a","d","i","n","g">>,
                    <<"l","o","a","d","e","r">> >>],
      [canonical |-> <<"t","a","b">>,
       aliases |-> << <<"t","a","b">>,
                    <<"t","a","b","s">>,
                    <<"p","e","s","t","a","n~","a">>,
                    <<"p","e","s","t","a","n~","a","s">>,
                    <<"p","e","s","t","a","n","a">>,
                    <<"p","e","s","t","a","n","a","s">> >>],
      [canonical |-> <<"t","a","b","l","e">>,
       aliases |-> << <<"t","a","b","l","e">>,
                    <<"t","a","b","l","a">>,
                    <<"t","a","b","l","a","s">>,
                    <<"t","a","b","l","e","s">> >>],
      [canonical |-> <<"t","a","g">>,
       aliases |-> << <<"t","a","g">>,
                    <<"e","t","i","q","u","e","t","a">>,
                    <<"t","a","g","s">>,
                    <<"e","t","i","q","u","e","t","a","s">> >>],
      [canonical |-> <<"t","e","x","t","a","r","e","a">>,
       aliases |-> << <<"t","e","x","t","a","r","e","a">>,
                    <<"a'","r","e","a"," ","d","e"," ","t","e","x","t","o">>,
                    <<"a","r","e","a"," ","d","e"," ","t","e","x","t","o">>,
                    <<"t","e","x","t"," ","a","r","e","a">> >>],
      [canonical |-> <<"t","o","a","s","t">>,
       aliases |-> << <<"t","o","a","s","t">>,
                    <<"n","o","t","i","f","i","c","a","c","i","o'","n">>,
                    <<"n","o","t","i","f","i","c","a","c","i","o","n">>,
                    <<"m","e","n","s","a","j","e">> >>],
      [canonical |-> <<"t","o","o","l","t","i","p">>,
       aliases |-> << <<"t","o","o","l","t","i","p">>,
                    <<"d","e","s","c","r","i","p","c","i","o'","n"," ","e","m","e","r","g","e","n","t","e">>,
                    <<"h","i","n","t">>,
                    <<"a","y","u","d","a">> >>],
      [canonical |-> <<"f","o","r","m">>,
       aliases |-> << <<"f","o","r","m">>,
                    <<"f","o","r","m","u","l","a","r","i","o">>,
                    <<"f","o","r","m","u","l","a","r","i","o","s">>,
                    <<"f","o","r","m","s">> >>],
      [canonical |-> <<"s","e","a","r","c","h">>,
       aliases |-> << <<"s","e","a","r","c","h">>,
                    <<"b","u'","s","q","u","e","d","a">>,
                    <<"b","u","s","q","u","e","d","a">>,
                    <<"b","u","s","c","a","d","o","r">> >>],
      [canonical |-> <<"a","v","a","t","a","r">>,
       aliases |-> << <<"a","v","a","t","a","r">>,
                    <<"f","o","t","o"," ","d","e"," ","p","e","r","f","i","l">>,
                    <<"i","m","a","g","e","n"," ","d","e"," ","u","s","u","a","r","i","o">> >>],
      [canonical |-> <<"s","w","i","t","c","h">>,
       aliases |-> << <<"s","w","i","t","c","h">>,
                    <<"i","n","t","e","r","r","u","p","t","o","r">>,
                    <<"t","o","g","g","l","e">> >>],
      [canonical |-> <<"s","t","e","p","p","e","r">>,
       aliases |-> << <<"s","t","e","p","p","e","r">>,
                    <<"p","a","s","o","s">>,
                    <<"w","i","z","a","r","d">>,
                    <<"a","s","i","s","t","e","n","t","e">> >>],
      [canonical |-> <<"s","i","d","e","b","a","r">>,
       aliases |-> << <<"s","i","d","e","b","a","r">>,
                    <<"b","a","r","r","a"," ","l","a","t","e","r","a","l">>,
                    <<"m","e","n","u'"," ","l","a","t","e","r","a","l">>,
                    <<"m","e","n","u"," ","l","a","t","e","r","a","l">> >>],
      [canonical |-> <<"d","i","v","i","d","e","r">>,
       aliases |-> << <<"d","i","v","i","d","e","r">>,
                    <<"d","i","v","i","s","o","r">>,
                    <<"s","e","p","a","r","a","d","o","r">>,
                    <<"l","i'","n","e","a">>,
                    <<"l","i","n","e","a">> >>],
      [canonical |-> <<"c","h","i","p">>,
       aliases |-> << <<"c","h","i","p">>,
                    <<"c","h","i","p","s">>,
                    <<"e","t","i","q","u","e","t","a"," ","p","e","q","u","e","n~","a">> >>],
      [canonical |-> <<"d","a","t","e","-","p","i","c","k","e","r">>,
       aliases |-> << <<"d","a","t","e","-","p","i","c","k","e","r">>,
                    <<"d","a","t","e","p","i","c","k","e","r">>,
                    <<"s","e","l","e","c","t","o","r"," ","d","e"," ","f","e","c","h","a">>,
                    <<"c","a","l","e","n","d","a","r","i","o">>,
                    <<"c","a","l","e","n","d","a","r">> >>],
      [canonical |-> <<"f","i","l","e","-","u","p","l","o","a","d">>,
       aliases |-> << <<"f","i","l","e","-","u","p","l","o","a","d">>,
                    <<"s","u","b","i","r"," ","a","r","c","h","i","v","o">>,
                    <<"u","p","l","o","a","d">>,
                    <<"c","a","r","g","a"," ","d","e"," ","a","r","c","h","i","v","o","s">> >>],
      [canonical |-> <<"a","u","t","o","c","o","m","p","l","e","t","e">>,
       aliases |-> << <<"a","u","t","o","c","o","m","p","l","e","t","e">>,
                    <<"a","u","t","o","c","o","m","p","l","e","t","a","r">>,
                    <<"s","u","g","e","r","e","n","c","i","a","s">> >>]
    >>

\* s.toLowerCase().normalize("NFD").replace(/[\u0300-\u036f]/g, "")
NormalizedAlias(alias) == stripDiacritics(toLowerCase(alias))

\* the table with every alias so normalized, group by group
NormalizedAliases ==
    [g \in 1..Len(COMPONENT_ALIASES) |->
        [a \in 1..Len(COMPONENT_ALIASES[g].aliases) |->
            NormalizedAlias(COMPONENT_ALIASES[g].aliases[a])]]

\* input.toLowerCase().trim().normalize("NFD").replace(/[\u0300-\u036f]/g, "")
NormalizedQuery(input) == stripDiacritics(trim(toLowerCase(input)))

\* a resolver result: null, or a string
NoKey == [found |-> FALSE, key |-> <<>>]
Key(k) == [found |-> TRUE, key |-> k]

\* the test of the inner loop of normalizeComponentName
AliasTouches(na, normalized) ==
    na = normalized \/ includes(normalized, na) \/ includes(na, normalized)

\* the canonical name of the first group one of whose aliases equals,
\* contains or is contained in the normalized input; else the normalized input
normalizeComponentName(input) ==
    IF input = <<>> THEN NoKey
    ELSE LET normalized == NormalizedQuery(input)
             hits == { g \in 1..Len(COMPONENT_ALIASES) :
                         \E a \in 1..Len(NormalizedAliases[g]) :
                            AliasTouches(NormalizedAliases[g][a], normalized) }
         IN  IF hits = {} THEN Key(normalized)
             ELSE Key(COMPONENT_ALIASES[CHOOSE g \in hits : \A h \in hits : g <= h].canonical)

HtmlSuffix == <<" ","(","h","t","m","l",")">>

\* isMatch of findComponentKey for group g
IsMatch(g, canonicalName, normalized) ==
    \/ Key(COMPONENT_ALIASES[g].canonical) = canonicalName
    \/ \E a \in 1..Len(NormalizedAliases[g]) : NormalizedAliases[g][a] = normalized

\* the body of `for (const alias of aliases)` for one normalized alias
AliasLookup(components, na) ==
    IF Truthy(components, na) THEN Key(na)
    ELSE IF Truthy(components, na \o HtmlSuffix) THEN Key(na \o HtmlSuffix)
    ELSE NoKey

\* the first alias of group g that the catalog has, plain or with " (html)"
GroupLookup(components, g) ==
    LET hits == { a \in 1..Len(NormalizedAliases[g]) :
                    AliasLookup(components, NormalizedAliases[g][a]).found }
    IN  IF hits = {} THEN NoKey
        ELSE AliasLookup(components,
                         NormalizedAliases[g][CHOOSE a \in hits : \A b \in hits : a <= b])

\* the alias loop of findComponentKey
AliasStep(components, canonicalName, normalized) ==
    LET hits == { g \in 1..Len(COMPONENT_ALIASES) :
                    /\ IsMatch(g, canonicalName, normalized)
                    /\ GroupLookup(components, g).found }
    IN  IF hits = {} THEN NoKey
        ELSE GroupLookup(components, CHOOSE g \in hits : \A h \in hits : g <= h)

\* the last loop of findComponentKey, over Object.keys(components)
SubstringStep(components, normalized) ==
    LET keys == ObjectKeys(components)
        hits == { i \in 1..Len(keys) :
                    \/ includes(stripDiacritics(keys[i]), normalized)
                    \/ includes(normalized, stripDiacritics(keys[i])) }
    IN  IF hits = {} THEN NoKey
        ELSE Key(keys[CHOOSE i \in hits : \A j \in hits : i <= j])

findComponentKey(components, searchTerm) ==
    IF searchTerm = <<>> THEN NoKey
    ELSE LET normalized == NormalizedQuery(searchTerm)
             byAlias    == AliasStep(components, normalizeComponentName(searchTerm),
                                     normalized)
         IN  IF Truthy(components, normalized) THEN Key(normalized)
             ELSE IF byAlias.found THEN byAlias
             ELSE SubstringStep(components, normalized)

(***************************************************************************)
(* The snippet extractor and formatter: parseCodeBlocks, formatCodeOutput  *)
(* (current server).  null and the empty string are both falsy and the     *)
(* code tests them only for that: both are the empty sequence here.        *)
(***************************************************************************)
H3Prefix == <<"#","#","#">>
AnchorMarker == <<"[","#","]">>
FenceHtml == <<"BT","BT","BT","h","t","m","l">>
FenceJs == <<"BT","BT","BT","j","s">>
FenceJavascript == <<"BT","BT","BT","j","a","v","a","s","c","r","i","p","t">>
FenceEnd == <<"BT","BT","BT">>

\* /^###\s+(.+)/ matches: "###", white space, and at least one more character
IsExampleHeading(line) ==
    startsWith(line, H3Prefix) /\ Len(line) >= 5 /\ line[4] \in WhiteSpace

\* the start of the last "[#]" that /^###\s+(.+)\s*\[#\]/ can end with, or 0
AnchorAt(line) ==
    LET at == { q \in 6..(Len(line) - 2) : SubSeq(line, q, q + 2) = AnchorMarker }
    IN  IF IsExampleHeading(line) /\ at # {}
        THEN CHOOSE q \in at : \A r \in at : r <= q
        ELSE 0

\* match[1].trim() of whichever of the two patterns applies
ExampleTitle(line) ==
    IF AnchorAt(line) > 0
    THEN trim(SubSeq(line, 4, AnchorAt(line) - 1))
    ELSE trim(slice(line, 3))

NoExample == [open |-> FALSE, title |-> <<>>, html |-> <<>>, nunjucks |-> <<>>]
NewExample(title) == [open |-> TRUE, title |-> title, html |-> <<>>, nunjucks |-> <<>>]
ExampleOf(cur) == [title |-> cur.title, html |-> cur.html, nunjucks |-> cur.nunjucks]

\* currentExample && (currentExample.html || currentExample.nunjucks)
HasCode(cur) == cur.open /\ (cur.html # <<>> \/ cur.nunjucks # <<>>)

ExtractorStart ==
    [examples |-> <<>>, currentExample |-> NoExample, inCodeBlock |-> FALSE,
     codeBlockType |-> "null", codeBuffer |-> <<>>]

\* the first if / else if of the loop body: a heading closes the example
\* under way, pushing it when it has code, and opens the next one
HeadingStep(st, line) ==
    IF IsExampleHeading(line)
    THEN [st EXCEPT !.examples = IF HasCode(st.currentExample)
                                 THEN Append(@, ExampleOf(st.currentExample)) ELSE @,
                    !.currentExample = NewExample(ExampleTitle(line))]
    ELSE st

\* codeBuffer.join('\n')
RECURSIVE JoinBuffer(_)
JoinBuffer(buffer) ==
    IF buffer = <<>> THEN <<>>
    ELSE IF Len(buffer) = 1 THEN buffer[1]
    ELSE buffer[1] \o <<"LF">> \o JoinBuffer(Tail(buffer))

\* a closing fence that would add its code to what the example has
CloseFence_accumulates(st) ==
    LET code == trim(JoinBuffer(st.codeBuffer))
        cur  == IF ~st.currentExample.open THEN st.currentExample
                ELSE IF st.codeBlockType = "html"
                     THEN [st.currentExample EXCEPT !.html = trim(@ \o <<"LF">> \o code)]
                ELSE IF st.codeBlockType = "nunjucks"
                     THEN [st.currentExample EXCEPT !.nunjucks = trim(@ \o <<"LF">> \o code)]
                ELSE st.currentExample
    IN  [st EXCEPT !.currentExample = cur, !.inCodeBlock = FALSE,
                   !.codeBlockType = "null", !.codeBuffer = <<>>]

\* the closing fence: the trimmed buffer becomes the example's html or nunjucks
CloseFence(st) ==
    LET code == trim(JoinBuffer(st.codeBuffer))
        cur  == IF ~st.currentExample.open THEN st.currentExample
                ELSE IF st.codeBlockType = "html"
                     THEN [st.currentExample EXCEPT !.html = code]
                ELSE IF st.codeBlockType = "nunjucks"
                     THEN [st.currentExample EXCEPT !.nunjucks = code]
                ELSE st.currentExample
    IN  [st EXCEPT !.currentExample = cur, !.inCodeBlock = FALSE,
                   !.codeBlockType = "null", !.codeBuffer = <<>>]

\* the second if chain of the loop body
FenceStep(st, line) ==
    IF startsWith(line, FenceHtml)
    THEN [st EXCEPT !.inCodeBlock = TRUE, !.codeBlockType = "html", !.codeBuffer = <<>>]
    ELSE IF startsWith(line, FenceJs) \/ startsWith(line, FenceJavascript)
    THEN [st EXCEPT !.inCodeBlock = TRUE, !.codeBlockType = "nunjucks", !.codeBuffer = <<>>]
    ELSE IF line = FenceEnd /\ st.inCodeBlock
    THEN CloseFence(st)
    ELSE IF st.inCodeBlock
    THEN [st EXCEPT !.codeBuffer = Append(@, line)]
    ELSE st

RECURSIVE ExtractLines(_, _)
ExtractLines(st, lines) ==
    IF lines = <<>> THEN st
    ELSE ExtractLines(FenceStep(HeadingStep(st, Head(lines)), Head(lines)), Tail(lines))

parseCodeBlocks(markdown) ==
    LET st == ExtractLines(ExtractorStart, split(markdown, "LF"))
    IN  IF HasCode(st.currentExample)
        THEN Append(st.examples, ExampleOf(st.currentExample))
        ELSE st.examples

\* the filter of formatCodeOutput (its parameter variant is variantArg here): s.toLowerCase().normalize("NFD").replace(...)
FilterNorm(s) == stripDiacritics(toLowerCase(s))

\* the predicate of examples.filter(...)
VariantMatches(title, variantArg) ==
    \/ includes(FilterNorm(title), FilterNorm(variantArg))
    \/ includes(FilterNorm(variantArg), FilterNorm(title))

FilterExamples_keepsEmptyResult(examples, variantArg) ==
    IF variantArg = <<>> THEN examples
    ELSE SelectSeq(examples, LAMBDA ex : VariantMatches(ex.title, variantArg))

\* if (variant) { ...; if (filtered.length > 0) examples = filtered }
FilterExamples(examples, variantArg) ==
    LET filtered == SelectSeq(examples, LAMBDA ex : VariantMatches(ex.title, variantArg))
    IN  IF variantArg # <<>> /\ filtered # <<>> THEN filtered ELSE examples

\* format.toUpperCase(), and the fence language of the output
FormatUpper(format) ==
    IF format = "html" THEN <<"H","T","M","L">>
    ELSE <<"N","U","N","J","U","C","K","S">>
FenceOf(format) == IF format = "html" THEN FenceHtml ELSE FenceJs

NoExamplesMessage(format) ==
    <<"N","o"," ","s","e"," ","e","n","c","o","n","t","r","a","r","o","n"," ","e","j","e","m","p","l","o","s"," ","d","e"," ","c","o'","d","i","g","o"," ">>
    \o FormatUpper(format) \o
    <<" ","p","a","r","a"," ","e","s","t","e"," ","c","o","m","p","o","n","e","n","t","e",".">>

\* `### ${example.title}\n\`\`\`${...}\n${code}\n\`\`\``
OutputEntry(example, format) ==
    LET code == IF format = "html" THEN example.html ELSE example.nunjucks
    IN  <<"#","#","#"," ">> \o example.title \o <<"LF">> \o FenceOf(format)
        \o <<"LF">> \o code \o <<"LF">> \o FenceEnd

\* output.join('\n\n') over the examples that have code in the format
RECURSIVE JoinOutput(_, _)
JoinOutput(examples, format) ==
    IF examples = <<>> THEN <<>>
    ELSE LET code == IF format = "html" THEN Head(examples).html
                     ELSE Head(examples).nunjucks
             rest == JoinOutput(Tail(examples), format)
         IN  IF code = <<>> THEN rest
             ELSE IF rest = <<>> THEN OutputEntry(Head(examples), format)
             ELSE OutputEntry(Head(examples), format) \o <<"LF","LF">> \o rest

\* a formatter that would look for code in all examples, filtered or not,
\* before it reports that there is none
formatCodeOutput_testsAllExamples(examples, format, variantArg) ==
    LET output == JoinOutput(FilterExamples(examples, variantArg), format)
    IN  IF JoinOutput(examples, format) = <<>> THEN NoExamplesMessage(format) ELSE output

\* formatCodeOutput(examples, format, variant)
formatCodeOutput(examples, format, variantArg) ==
    LET output == JoinOutput(FilterExamples(examples, variantArg), format)
    IN  IF output = <<>> THEN NoExamplesMessage(format) ELSE output

(***************************************************************************)
(* searchComponents                                                        *)
(* A query is a JavaScript value: [type |-> "undefined"],                  *)
(* [type |-> "number"] or [type |-> "string", value |-> its characters].   *)
(***************************************************************************)
\* !query || typeof query !== 'string'
NoQuery(query) == query.type # "string" \/ query.value = <<>>

\* results.slice(0, 100) in the current server, results.slice(0, 20) in the
\* legacy servers
PageSize(v) == IF v = "current" THEN 100 ELSE 20

FirstPage(results, v) ==
    SubSeq(results, 1, IF Len(results) < PageSize(v) THEN Len(results) ELSE PageSize(v))

\* an entry of the result: the component's name, its key and how it matched
\* (the other fields are copies of the component's fields)
ResultEntry(name, canonicalName, matchType) ==
    [name |-> name, canonicalName |-> canonicalName, matchType |-> matchType]

\* comp.name for comp = components[key]: for a key that only Object.prototype
\* supplies, the name of that function
NameAt(components, key) ==
    IF HasOwn(components, key) THEN components[OwnIndex(components, key)].value.name
    ELSE IF key = <<"c","o","n","s","t","r","u","c","t","o","r">>
         THEN <<"O","b","j","e","c","t">>
         ELSE key

\* if (normalizedQuery && components[normalizedQuery]) results.push({... 'exact'})
ExactResults(components, normalizedQuery) ==
    IF normalizedQuery.found /\ normalizedQuery.key # <<>>
       /\ Truthy(components, normalizedQuery.key)
    THEN << ResultEntry(NameAt(components, normalizedQuery.key),
                        normalizedQuery.key, "exact") >>
    ELSE <<>>

\* the loop over COMPONENT_ALIASES: a group not seen yet, one of whose
\* aliases contains the query or is contained in it, and whose canonical
\* name is in the catalog
RECURSIVE AliasResults(_, _, _, _)
AliasResults(components, queryLower, seen, g) ==
    IF g > Len(COMPONENT_ALIASES) THEN <<>>
    ELSE LET canonical == COMPONENT_ALIASES[g].canonical
             hit == /\ \A e \in 1..Len(seen) : seen[e].canonicalName # canonical
                    /\ \E a \in 1..Len(NormalizedAliases[g]) :
                          \/ includes(NormalizedAliases[g][a], queryLower)
                          \/ includes(queryLower, NormalizedAliases[g][a])
                    /\ Truthy(components, canonical)
         IN  (IF hit THEN << ResultEntry(NameAt(components, canonical), canonical, "alias") >>
              ELSE <<>>)
             \o AliasResults(components, queryLower, seen, g + 1)

\* the loop over Object.entries(components): key, name or description
\* contains the query
RECURSIVE PartialResults(_, _, _, _)
PartialResults(components, queryLower, seen, i) ==
    IF i > Len(components) THEN <<>>
    ELSE LET key == components[i].key
             comp == components[i].value
             hit == /\ \A e \in 1..Len(seen) : seen[e].canonicalName # key
                    /\ \/ includes(stripDiacritics(key), queryLower)
                       \/ includes(stripDiacritics(toLowerCase(comp.name)), queryLower)
                       \/ includes(stripDiacritics(toLowerCase(comp.description)), queryLower)
         IN  (IF hit THEN << ResultEntry(comp.name, key, "partial") >> ELSE <<>>)
             \o PartialResults(components, queryLower, seen, i + 1)

\* the current server
SearchCurrent(components, query) ==
    IF NoQuery(query)
    THEN [i \in 1..Len(components) |->
            ResultEntry(components[i].value.name, components[i].key, "none")]
    ELSE LET queryLower == stripDiacritics(toLowerCase(query.value))
             exact == ExactResults(components, normalizeComponentName(query.value))
             alias == exact \o AliasResults(components, queryLower, exact, 1)
         IN  alias \o PartialResults(components, queryLower, alias, 1)

\* the legacy servers.  src/server-desy.js tests
\*   key.includes(queryLower) || comp.name.toLowerCase().includes(queryLower)
\*   || comp.description.toLowerCase().includes(queryLower)
\* and src/install-desy-mcp/server-desy.js tests the reverse inclusions
\*   queryLower.includes(key) || queryLower.includes(comp.name.toLowerCase())
\*   || queryLower.includes(comp.description.toLowerCase())
SearchLegacy(v, components, queryLower) ==
    LET hits == SelectSeq(components,
                    LAMBDA c :
                        IF v = "http"
                        THEN \/ includes(c.key, queryLower)
                             \/ includes(toLowerCase(c.value.name), queryLower)
                             \/ includes(toLowerCase(c.value.description), queryLower)
                        ELSE \/ includes(queryLower, c.key)
                             \/ includes(queryLower, toLowerCase(c.value.name))
                             \/ includes(queryLower, toLowerCase(c.value.description)))
    IN  [i \in 1..Len(hits) |-> ResultEntry(hits[i].value.name, hits[i].key, "none")]

\* searchComponents(query) on the catalog fetchLlmsTxt() resolved with; in
\* the legacy servers query.toLowerCase() raises a TypeError for a query that
\* is not a string
searchComponents(v, components, query) ==
    IF v = "current"
    THEN [threw |-> FALSE, results |-> FirstPage(SearchCurrent(components, query), v)]
    ELSE IF query.type # "string"
         THEN [threw |-> TRUE, results |-> <<>>]
         ELSE [threw |-> FALSE,
               results |-> FirstPage(SearchLegacy(v, components, toLowerCase(query.value)), v)]

(***************************************************************************)
(* The upstream: what GET https://desy.aragon.es/llms.txt can answer       *)
(***************************************************************************)
IndexV1 ==
    <<"#","#"," ","F","LF","-"," ","[","B","o","t","o'","n","]","(",
      "/","c","o","m","p","o","n","e","n","t","e","-","b","-","c","o","d","i","g","o",")">>
IndexV2 ==
    IndexV1 \o
    <<"LF","-"," ","[","T","a","b","]","(","/","c","o","m","p","o","n","e","n","t","e",
      "-","t","-","a","n","g","u","l","a","r",")">>
\* an index whose heading is a name Object.prototype supplies
IndexProto ==
    <<"#","#"," ","c","o","n","s","t","r","u","c","t","o","r","LF","-"," ","[","T","a","b",
      "]","(","/","c","o","m","p","o","n","e","n","t","e","-","t",")">>
NotFoundPage == <<"N","o","t"," ","F","o","u","n","d">>

\* kind "error": the request or the response stream emits "error"
Responses ==
    { [kind |-> "response", status |-> 200, body |-> IndexV1],
      [kind |-> "response", status |-> 200, body |-> IndexV2],
      [kind |-> "response", status |-> 200, body |-> IndexProto],
      [kind |-> "response", status |-> 404, body |-> NotFoundPage],
      [kind |-> "error", status |-> 0, body |-> <<>>] }

\* fetchUrl(url): the promise resolves with the body at "end", whatever the
\* status code, and rejects on "error"
fetchUrl(resp) ==
    IF resp.kind = "error"
    THEN [state |-> "rejected", data |-> <<>>]
    ELSE [state |-> "resolved", data |-> resp.body]

(***************************************************************************)
(* The catalog cache: fetchLlmsTxt and refreshCache                        *)
(***************************************************************************)
CACHE_DURATION_MS == 24 * 60 * 60 * 1000

\* Date.now() moves in steps of the cache duration, MaxTicks times: a cached
\* entry is seen at the ages 0, 24 h (not yet expired) and 48 h (expired)
TickMs == CACHE_DURATION_MS
MaxTicks == 2
\* the process starts at some instant later than 24 h after the epoch
StartTime == CACHE_DURATION_MS + TickMs
EndTime == StartTime + MaxTicks * TickMs

Callers == {"c1", "c2"}

\* cache.data: null is <<>>, a catalog c is <<c>>
Null == <<>>
Some(c) == <<c>>
EmptyCache == [data |-> Null, timestamp |-> 0]

Catalog(parsed) == [categories |-> parsed.categories, components |-> parsed.components]

CacheExpired_atTtl(now, c) == now - c.timestamp >= CACHE_DURATION_MS

\* const cacheExpired = now - cache.timestamp > CACHE_DURATION_MS
CacheExpired(now, c) == now - c.timestamp > CACHE_DURATION_MS

\* if (!forceRefresh && !cacheExpired && cache.data) return cache.data
ServesFromCache(forceRefresh, now, c) ==
    ~forceRefresh /\ ~CacheExpired(now, c) /\ c.data # Null

StoredEntry_stampsDelivery(parsed, now) == [data |-> Some(parsed), timestamp |-> clock]

\* cache = { data: parsed, timestamp: now }
StoredEntry(parsed, now) == [data |-> Some(parsed), timestamp |-> now]

\* parseLlmsTxt on each body the upstream can send, computed once
Bodies == {r.body : r \in Responses}
ParsedTable == { <<v, body, parseLlmsTxt(v, body)>> : v \in Variants, body \in Bodies }
Parsed(v, body) == (CHOOSE t \in ParsedTable : t[1] = v /\ t[2] = body)[3]

\* the try block: await fetchUrl, parseLlmsTxt, store, return parsed
TryBlock(v, resp, now) ==
    LET fetched == fetchUrl(resp)
        parsed  == Parsed(v, fetched.data)
    IN  IF fetched.state = "rejected"
        THEN [ok |-> FALSE, why |-> "rejected", entry |-> EmptyCache]
        ELSE IF parsed.threw
        THEN [ok |-> FALSE, why |-> "parse_threw", entry |-> EmptyCache]
        ELSE [ok |-> TRUE, why |-> "resolved", entry |-> StoredEntry(Catalog(parsed), now)]

CatchBlock_alwaysThrows(c) == [kind |-> "throw", data |-> Null]

\* the catch block: if (cache.data) return cache.data; throw new Error(...)
CatchBlock(c) ==
    IF c.data # Null
    THEN [kind |-> "return", data |-> c.data]
    ELSE [kind |-> "throw", data |-> Null]

SlotAfter_clearsOnFailure(try, c) == IF try.ok THEN try.entry ELSE EmptyCache

\* the slot after fetchLlmsTxt resumed: assigned in the try block only
SlotAfter(try, c) == IF try.ok THEN try.entry ELSE c

\* a refresh that would drop the catalog and keep its timestamp
ClearedCache_keepsTimestamp(c) == [data |-> Null, timestamp |-> c.timestamp]

\* refreshCache, first statement: cache = { data: null, timestamp: 0 }
ClearedCache(c) == EmptyCache

Tools ==
    { "get_component_code_html", "get_component_code_nunjucks",
      "get_component_code_angular", "get_component_props", "search_components",
      "get_guideline", "list_categories", "refresh_cache" }

\* a caller's frame while its operation awaits the fetch it issued; `cleared`
\* is what refreshCache found in the slot and cleared (observation only)
Idle ==
    [pc |-> "idle", op |-> "none", forceRefresh |-> FALSE, now |-> 0, attempts |-> 0,
     cleared |-> Null]

\* the operation that completed last, as its caller saw it (observation only):
\*   attempts  how often it called fetchUrl on the index
\*   how       how that fetch went: "none", "resolved", "rejected", or
\*             "parse_threw" (resolved, and parseLlmsTxt raised inside the try)
\*   status    the status code of the response, 0 when there was none
\*   got       what its fetchLlmsTxt did: "return" with data, or "throw"
\*   kind      what the operation itself did, see OperationResult
\*   took      the time between its call and its completion
NoOutcome ==
    [op |-> "none", forceRefresh |-> FALSE, attempts |-> 0, how |-> "none",
     status |-> 0, got |-> "none", data |-> Null, kind |-> "none", took |-> 0]

\* what the operation makes of the result of its `await fetchLlmsTxt(...)`:
\*   fetchLlmsTxt called directly: the catalog
\*   refreshCache: { status: "success", message } once the await returns
\*   a tool: its payload; the stdio server's CallTool handler wraps the call
\*   in try/catch and answers { content: "Error: ...", isError: true }
OperationResult(v, op, got) ==
    IF got.kind = "throw"
    THEN IF op \in Tools /\ v = "stdio" THEN "error_payload" ELSE "throw"
    ELSE IF op = "fetchLlmsTxt" THEN "catalog"
    ELSE IF op \in {"refreshCache", "refresh_cache"} THEN "success"
    ELSE "payload"

Outcome(v, f, how, status, got, took) ==
    [op |-> f.op, forceRefresh |-> f.forceRefresh, attempts |-> f.attempts,
     how |-> how, status |-> status, got |-> got.kind, data |-> got.data,
     kind |-> OperationResult(v, f.op, got), took |-> took]

Enter_singleFlight(p, op, forceRefresh, cleared, c) ==
    LET f == [Idle EXCEPT !.op = op, !.forceRefresh = forceRefresh, !.cleared = cleared]
    IN  IF ServesFromCache(forceRefresh, clock, c)
        THEN /\ out' = Outcome(variant, f, "none", 0, [kind |-> "return", data |-> c.data], 0)
             /\ UNCHANGED calls
        ELSE IF \E q \in Callers \ {p} : calls[q].pc = "fetching"
        THEN /\ calls' = [calls EXCEPT ![p] = [f EXCEPT !.pc = "joined", !.now = clock]]
             /\ UNCHANGED out
        ELSE /\ calls' = [calls EXCEPT ![p] =
                            [f EXCEPT !.pc = "fetching", !.now = clock, !.attempts = 1]]
             /\ UNCHANGED out

\* the synchronous start of fetchLlmsTxt(forceRefresh) inside operation op,
\* entered with the cache slot c: serve from the cache and complete at once,
\* or issue the fetch and suspend
Enter(p, op, forceRefresh, cleared, c) ==
    LET f == [Idle EXCEPT !.op = op, !.forceRefresh = forceRefresh, !.cleared = cleared]
    IN  IF ServesFromCache(forceRefresh, clock, c)
        THEN /\ out' = Outcome(variant, f, "none", 0, [kind |-> "return", data |-> c.data], 0)
             /\ UNCHANGED calls
        ELSE /\ calls' = [calls EXCEPT ![p] =
                            [f EXCEPT !.pc = "fetching", !.now = clock, !.attempts = 1]]
             /\ UNCHANGED out

\* a caller calls fetchLlmsTxt(forceRefresh)
CallGet(p, forceRefresh) ==
    /\ calls[p].pc = "idle"
    /\ Enter(p, "fetchLlmsTxt", forceRefresh, Null, cache)
    /\ UNCHANGED <<variant, cache, clock, hist, rs, ev, http>>

\* a caller calls refreshCache() (op "refreshCache"), or the refresh_cache
\* tool that calls it: clear the slot, then fetchLlmsTxt(true)
CallRefresh(p, op) ==
    /\ calls[p].pc = "idle"
    /\ cache' = ClearedCache(cache)
    /\ Enter(p, op, TRUE, cache.data, cache')
    /\ UNCHANGED <<variant, clock, hist, rs, ev, http>>

\* a tool other than refresh_cache: it begins with `await fetchLlmsTxt()`
CallTool(p, tool) ==
    /\ calls[p].pc = "idle"
    /\ tool \in Tools \ {"refresh_cache"}
    /\ Enter(p, tool, FALSE, Null, cache)
    /\ UNCHANGED <<variant, cache, clock, hist, rs, ev, http>>

Settle_inCallOrder(p, resp) ==
    LET f   == calls[p]
        try == TryBlock(variant, resp, f.now)
        got == IF try.ok
               THEN [kind |-> "return", data |-> try.entry.data]
               ELSE CatchBlock(cache)
    IN  /\ f.pc = "fetching"
        /\ \A q \in Callers \ {p} : calls[q].pc = "fetching" => calls[q].now >= f.now
        /\ cache' = SlotAfter(try, cache)
        /\ calls' = [calls EXCEPT ![p] = Idle]
        /\ out' = Outcome(variant, f, try.why, resp.status, got, clock - f.now)
        /\ hist' = [hist EXCEPT
                        !.everPopulated = @ \/ try.ok,
                        !.refreshFailed =
                            @ \/ (~try.ok /\ f.op \in {"refreshCache", "refresh_cache"})]
        /\ UNCHANGED <<variant, clock, rs, ev, http>>

\* the fetch of caller p settles with resp: the rest of fetchLlmsTxt runs,
\* and the operation that awaited it returns or throws
Settle(p, resp) ==
    LET f   == calls[p]
        try == TryBlock(variant, resp, f.now)
        got == IF try.ok
               THEN [kind |-> "return", data |-> try.entry.data]
               ELSE CatchBlock(cache)
    IN  /\ f.pc = "fetching"
        /\ cache' = SlotAfter(try, cache)
        /\ calls' = [calls EXCEPT ![p] = Idle]
        /\ out' = Outcome(variant, f, try.why, resp.status, got, clock - f.now)
        /\ hist' = [hist EXCEPT
                        !.everPopulated = @ \/ try.ok,
                        !.refreshFailed =
                            @ \/ (~try.ok /\ f.op \in {"refreshCache", "refresh_cache"})]
        /\ UNCHANGED <<variant, clock, rs, ev, http>>

\* time passes
Tick ==
    /\ clock < EndTime
    /\ clock' = clock + TickMs
    /\ UNCHANGED <<variant, cache, calls, out, hist, rs, ev, http>>

\* history of the slot (observation only): whether a catalog was ever
\* stored, and whether the fetch of some refreshCache call has failed
NoHistory == [everPopulated |-> FALSE, refreshFailed |-> FALSE]

RsIdle == [pc |-> "off"]
EvIdle == [pc |-> "off"]
HttpOff == [pc |-> "off"]

\* the cache code is the same in the three servers; Spec runs src/server-desy.js
Init ==
    /\ variant = "http"
    /\ cache = EmptyCache
    /\ clock = StartTime
    /\ calls = [p \in Callers |-> Idle]
    /\ out = NoOutcome
    /\ hist = NoHistory
    /\ http = HttpOff
    /\ rs = RsIdle
    /\ ev = EvIdle

Next ==
    \/ Tick
    \/ \E p \in Callers, forceRefresh \in BOOLEAN : CallGet(p, forceRefresh)
    \/ \E p \in Callers : CallRefresh(p, "refreshCache")
    \/ \E p \in Callers, resp \in Responses : Settle(p, resp)

Spec == Init /\ [][Next]_vars

\* concurrent calls of fetchLlmsTxt alone: refreshCache is never called
NextGets ==
    \/ Tick
    \/ \E p \in Callers, forceRefresh \in BOOLEAN : CallGet(p, forceRefresh)
    \/ \E p \in Callers, resp \in Responses : Settle(p, resp)

SpecGets == Init /\ [][NextGets]_vars

\* the fetch of caller c1 may hang for ever; the transport answers every
\* fetch of caller c2 in the end
SpecHung ==
    Init /\ [][Next]_vars /\ WF_vars(\E resp \in Responses : Settle("c2", resp))

\* the tools of one of the three servers, called by its clients
InitTools ==
    /\ variant \in Variants
    /\ cache = EmptyCache
    /\ clock = StartTime
    /\ calls = [p \in Callers |-> Idle]
    /\ out = NoOutcome
    /\ hist = NoHistory
    /\ http = HttpOff
    /\ rs = RsIdle
    /\ ev = EvIdle

\* one client, one request at a time
ToolCallers == {"c1"}

NextTools ==
    \/ Tick
    \/ \E p \in ToolCallers, tool \in Tools : CallTool(p, tool)
    \/ \E p \in ToolCallers : CallRefresh(p, "refresh_cache")
    \/ \E p \in ToolCallers, resp \in Responses : Settle(p, resp)

SpecTools == InitTools /\ [][NextTools]_vars

(***************************************************************************)
(* The resolver on the catalogs the parser produces                        *)
(***************************************************************************)
ComponentNames ==
    { <<"B","o","t","o'","n">>,
      <<"B","u","t","t","o","n">>,
      <<"B","u","t","t","o","n"," ","(","h","t","m","l",")">>,
      <<"T","a","b">>,
      <<"T","a","b","s">>,
      <<"B","o","t","o'","n"," ","d","e"," ","r","a","d","i","o">> }

MaxComponents == 2

\* the component names of an index document, in document order
NameLists ==
    { names \in UNION { [1..n -> ComponentNames] : n \in 1..MaxComponents } :
        \A i, j \in 1..Len(names) : i # j => names[i] # names[j] }

ComponentLine(name) ==
    <<"LF","-"," ","[">> \o name \o
    <<"]","(","/","c","o","m","p","o","n","e","n","t","e","-","x",")">>

RECURSIVE ComponentLines(_)
ComponentLines(names) ==
    IF names = <<>> THEN <<>>
    ELSE ComponentLine(Head(names)) \o ComponentLines(Tail(names))

IndexOf(names) == <<"#","#"," ","F">> \o ComponentLines(names)

SearchTerms ==
    { <<"b","o","t","o'","n">>,
      <<"B","o","t","o'","n"," ">>,
      <<" ","T","a","b">>,
      <<"t","a","b">>,
      <<"b","u","t","t","o","n">>,
      <<"b","o","t","o","n">>,
      <<"p","e","s","t","a","n~","a","s">>,
      <<"z","z","z">>,
      <<"c","o","n","s","t","r","u","c","t","o","r">>,
      <<>> }

RsReady(components) ==
    [pc |-> "ready", components |-> components, searchTerm |-> <<>>, result |-> NoKey]

\* a tool resolves the component name it was given against the cached catalog
Resolve(searchTerm) ==
    /\ rs.pc = "ready"
    /\ rs' = [rs EXCEPT !.pc = "resolved",
                        !.searchTerm = searchTerm,
                        !.result = findComponentKey(rs.components, searchTerm)]
    /\ UNCHANGED <<variant, cache, clock, calls, out, hist, ev, http>>

InitResolve ==
    /\ variant = "current"
    /\ cache = EmptyCache
    /\ clock = StartTime
    /\ calls = [p \in Callers |-> Idle]
    /\ out = NoOutcome
    /\ hist = NoHistory
    /\ http = HttpOff
    /\ \E names \in NameLists :
          rs = RsReady(parseLlmsTxt(variant, IndexOf(names)).components)
    /\ ev = EvIdle

NextResolve == \E searchTerm \in SearchTerms : Resolve(searchTerm)

SpecResolve == InitResolve /\ [][NextResolve]_vars

(***************************************************************************)
(* The index parser on documents built from a few kinds of line            *)
(***************************************************************************)
HeadingLine ==
    <<"#","#"," ","C","o","m","p","o","n","e","n","t","e","s"," ","d","e"," ","f","o","r","m","u","l","a","r","i","o">>
ComponentLineMd ==
    <<"-"," ","[","B","o","t","o'","n","]","(","/","c","o","m","p","o","n","e","n","t","e","-","b","-","c","o","d","i","g","o",".","m","d",")">>
SameNameLine ==
    <<"-"," ","[","B","O","T","O'","N","]","(","/","c","o","m","p","o","n","e","n","t","e","-","b","2","-","a","n","g","u","l","a","r",")">>
ThirdSameNameLine ==
    <<"-"," ","[","b","o","t","o'","n","]","(","/","c","o","m","p","o","n","e","n","t","e","-","b","3",")">>
SubheadingLine ==
    <<"#","#","#"," ","G">>
PrototypeHeadingLine ==
    <<"#","#"," ","c","o","n","s","t","r","u","c","t","o","r">>
UnmatchedBracketLine ==
    <<"-"," ","[","B","o","t","(","/","c","o","m","p","o","n","e","n","t","e","-","x">>
BlankLine ==
    <<" "," ">>

IndexLines ==
    { HeadingLine, ComponentLineMd, SameNameLine, ThirdSameNameLine, SubheadingLine,
      PrototypeHeadingLine, UnmatchedBracketLine, BlankLine }

MaxLines == 3

\* lines.join("\n")
RECURSIVE JoinLines(_)
JoinLines(lines) ==
    IF lines = <<>> THEN <<>>
    ELSE IF Len(lines) = 1 THEN lines[1]
    ELSE lines[1] \o <<"LF">> \o JoinLines(Tail(lines))

Documents ==
    { JoinLines(lines) : lines \in UNION { [1..n -> IndexLines] : n \in 0..MaxLines } }

EvParse(content) ==
    [pc |-> "ready", fn |-> "parseLlmsTxt", content |-> content,
     result |-> [categories |-> <<>>, components |-> <<>>, threw |-> FALSE]]

\* parseLlmsTxt(content) is called
ParseIndex ==
    /\ ev.pc = "ready"
    /\ ev.fn = "parseLlmsTxt"
    /\ ev' = [ev EXCEPT !.pc = "done", !.result = parseLlmsTxt(variant, ev.content)]
    /\ UNCHANGED <<variant, cache, clock, calls, out, hist, rs, http>>

InitParse ==
    /\ variant \in Variants
    /\ cache = EmptyCache
    /\ clock = StartTime
    /\ calls = [p \in Callers |-> Idle]
    /\ out = NoOutcome
    /\ hist = NoHistory
    /\ http = HttpOff
    /\ rs = RsIdle
    /\ \E content \in Documents : ev = EvParse(content)

NextParse == ParseIndex

SpecParse == InitParse /\ [][NextParse]_vars

(***************************************************************************)
(* The text normalization of the resolver, applied once and again          *)
(***************************************************************************)
MaxLen == 3

InputStrings ==
    UNION { [1..n -> {"a", "A", "a'", " ", "COMB_ACUTE"}] : n \in 0..MaxLen }

EvNormalize(input) ==
    [pc |-> "ready", fn |-> "normalize", input |-> input, once |-> <<>>, twice |-> <<>>]

\* input.toLowerCase().trim().normalize("NFD").replace(/[\u0300-\u036f]/g, "")
Normalize ==
    /\ ev.pc = "ready"
    /\ ev.fn = "normalize"
    /\ ev' = [ev EXCEPT !.pc = "once", !.once = NormalizedQuery(ev.input)]
    /\ UNCHANGED <<variant, cache, clock, calls, out, hist, rs, http>>

\* the same, on the result of the first application
NormalizeAgain ==
    /\ ev.pc = "once"
    /\ ev.fn = "normalize"
    /\ ev' = [ev EXCEPT !.pc = "twice", !.twice = NormalizedQuery(ev.once)]
    /\ UNCHANGED <<variant, cache, clock, calls, out, hist, rs, http>>

InitNormalize ==
    /\ variant = "current"
    /\ cache = EmptyCache
    /\ clock = StartTime
    /\ calls = [p \in Callers |-> Idle]
    /\ out = NoOutcome
    /\ hist = NoHistory
    /\ http = HttpOff
    /\ rs = RsIdle
    /\ \E input \in InputStrings : ev = EvNormalize(input)

NextNormalize == Normalize \/ NormalizeAgain

SpecNormalize == InitNormalize /\ [][NextNormalize]_vars

(***************************************************************************)
(* The snippet extractor on component pages built from a few kinds of line *)
(***************************************************************************)
\* the headings "### A [#]" and "### B", the fences, and two lines of markup
PageLines ==
    { <<"#","#","#"," ","A"," ","[","#","]">>, <<"#","#","#"," ","B">>,
      FenceHtml, FenceJs, FenceEnd, <<"<","a",">">>, <<"<","b",">">> }

MaxPageLines == 5

Pages ==
    { JoinLines(lines) : lines \in UNION { [1..n -> PageLines] : n \in 0..MaxPageLines } }

EvExtract(markdown) ==
    [pc |-> "ready", fn |-> "parseCodeBlocks", markdown |-> markdown, examples |-> <<>>]

\* parseCodeBlocks(markdown, format) is called
ExtractExamples ==
    /\ ev.pc = "ready"
    /\ ev.fn = "parseCodeBlocks"
    /\ ev' = [ev EXCEPT !.pc = "done", !.examples = parseCodeBlocks(ev.markdown)]
    /\ UNCHANGED <<variant, cache, clock, calls, out, hist, rs, http>>

InitExtract ==
    /\ variant = "current"
    /\ cache = EmptyCache
    /\ clock = StartTime
    /\ calls = [p \in Callers |-> Idle]
    /\ out = NoOutcome
    /\ hist = NoHistory
    /\ http = HttpOff
    /\ rs = RsIdle
    /\ \E markdown \in Pages : ev = EvExtract(markdown)

NextExtract == ExtractExamples

SpecExtract == InitExtract /\ [][NextExtract]_vars

(***************************************************************************)
(* The snippet extractor on pages that may open with a finished example:   *)
(* a heading and a closed fence of markup or of template code, followed by *)
(* any lines.  Two closed fences under one heading need seven lines.       *)
(***************************************************************************)
FirstExamples ==
    { <<>>,
      << <<"#","#","#"," ","A"," ","[","#","]">>, FenceHtml, <<"<","a",">">>, FenceEnd >>,
      << <<"#","#","#"," ","A"," ","[","#","]">>, FenceJs, <<"<","a",">">>, FenceEnd >> }

LongPages ==
    { JoinLines(first \o lines) :
        first \in FirstExamples,
        lines \in UNION { [1..n -> PageLines] : n \in 0..MaxPageLines } }

InitFences ==
    /\ variant = "current"
    /\ cache = EmptyCache
    /\ clock = StartTime
    /\ calls = [p \in Callers |-> Idle]
    /\ out = NoOutcome
    /\ hist = NoHistory
    /\ http = HttpOff
    /\ rs = RsIdle
    /\ \E markdown \in LongPages : ev = EvExtract(markdown)

SpecFences == InitFences /\ [][NextExtract]_vars

(***************************************************************************)
(* The formatter on the example blocks the extractor can emit              *)
(***************************************************************************)
\* blocks titled "A", "B" or "Ab" with markup, template code, or both
ExampleBlocks ==
    { [title |-> title, html |-> html, nunjucks |-> nunjucks] :
        title \in { <<"A">>, <<"B">>, <<"A","b">> },
        html \in { <<>>, <<"<","a",">">> },
        nunjucks \in { <<>>, <<"x">> } }
    \ { [title |-> title, html |-> <<>>, nunjucks |-> <<>>] :
          title \in { <<"A">>, <<"B">>, <<"A","b">> } }

MaxExamples == 2

VariantFilters == { <<>>, <<"a'">>, <<"B">>, <<"z">>, <<"a","b","c">>, <<" ","b">> }

EvFormat(examples, format, variantFilter) ==
    [pc |-> "ready", fn |-> "formatCodeOutput", examples |-> examples,
     format |-> format, variant |-> variantFilter, output |-> <<>>]

\* formatCodeOutput(examples, format, variant) is called
FormatExamples ==
    /\ ev.pc = "ready"
    /\ ev.fn = "formatCodeOutput"
    /\ ev' = [ev EXCEPT !.pc = "done",
                        !.output = formatCodeOutput(ev.examples, ev.format, ev.variant)]
    /\ UNCHANGED <<variant, cache, clock, calls, out, hist, rs, http>>

InitFormat ==
    /\ variant = "current"
    /\ cache = EmptyCache
    /\ clock = StartTime
    /\ calls = [p \in Callers |-> Idle]
    /\ out = NoOutcome
    /\ hist = NoHistory
    /\ http = HttpOff
    /\ rs = RsIdle
    /\ \E examples \in UNION { [1..n -> ExampleBlocks] : n \in 0..MaxExamples },
          format \in {"html", "nunjucks"}, variantFilter \in VariantFilters :
          ev = EvFormat(examples, format, variantFilter)

NextFormat == FormatExamples

SpecFormat == InitFormat /\ [][NextFormat]_vars

(***************************************************************************)
(* The bodies of getComponentCode, getComponentProps and getGuideline      *)
(* after `await fetchLlmsTxt()` has returned the catalog.  An argument is  *)
(* a JavaScript value like the query of searchComponents; page and         *)
(* fallback are what the fetches of the component's pages answer.          *)
(***************************************************************************)
\* s.slice(0, n), s.substring(0, n)
Take(s, n) == SubSeq(s, 1, IF Len(s) < n THEN Len(s) ELSE n)

\* s.replace(pattern, replacement) with a string pattern: the first occurrence
replace(s, pattern, replacement) ==
    IF ~includes(s, pattern) THEN s
    ELSE LET i == CHOOSE k \in 1..(Len(s) - Len(pattern) + 1) :
                     /\ SubSeq(s, k, k + Len(pattern) - 1) = pattern
                     /\ \A j \in 1..(k - 1) : SubSeq(s, j, j + Len(pattern) - 1) # pattern
         IN  SubSeq(s, 1, i - 1) \o replacement \o SubSeq(s, i + Len(pattern), Len(s))

\* what a tool body returns: kind says which return statement, suggestions
\* and listed are the keys or names the text enumerates, text is the rest
Payload(kind, suggestions, listed, text) ==
    [threw |-> FALSE, kind |-> kind, suggestions |-> suggestions,
     listed |-> listed, text |-> text]

\* the body raises a TypeError
Thrown ==
    [threw |-> TRUE, kind |-> "TypeError", suggestions |-> <<>>,
     listed |-> <<>>, text |-> <<>>]

\* available.filter(k => kNorm.includes(searchNorm.substring(0, 3)) ||
\*     searchNorm.includes(kNorm.substring(0, 3))).slice(0, 5)
Suggestions(components, component) ==
    LET searchNorm == stripDiacritics(toLowerCase(component))
    IN  Take(SelectSeq(ObjectKeys(components),
                       LAMBDA k : \/ includes(stripDiacritics(k), Take(searchNorm, 3))
                                  \/ includes(searchNorm, Take(stripDiacritics(k), 3))),
             5)

\* codeUrl of getComponentCode
CodeUrl(url, tech) ==
    LET htmlMd == <<".","h","t","m","l",".","m","d">>
        withCodigo == IF includes(url, CodigoMarker) THEN url
                      ELSE replace(url, htmlMd, CodigoMarker \o htmlMd)
    IN  IF tech = "angular" /\ ~includes(withCodigo, DashAngularMarker)
        THEN replace(withCodigo, CodigoMarker \o htmlMd,
                     CodigoMarker \o DashAngularMarker \o htmlMd)
        ELSE withCodigo

\* getComponentCode of the current server
GetComponentCodeCurrent(components, tech, component, variantArg, page, fallback) ==
    IF NoQuery(component)
    THEN Payload("missing_argument", <<>>, ObjectKeys(components), <<>>)
    ELSE LET key == findComponentKey(components, component.value)
         IN  IF ~key.found \/ key.key = <<>>
             THEN Payload("not_found", Suggestions(components, component.value),
                          Take(ObjectKeys(components), 20), <<>>)
             ELSE IF ~HasOwn(components, key.key)
             \* comp is a function of Object.prototype: codeUrl is undefined
             THEN Thrown
             ELSE LET comp == components[OwnIndex(components, key.key)].value
                      codeUrl == CodeUrl(comp.url, tech)
                      format == IF tech = "nunjucks" THEN "nunjucks" ELSE "html"
                      examples == parseCodeBlocks(fetchUrl(page).data)
                      header == <<"#","#"," ">> \o comp.name
                                \o <<" ","-"," ","C","o'","d","i","g","o"," ">>
                                \o FormatUpper(format) \o <<"LF","LF">>
                  IN  IF fetchUrl(page).state = "resolved"
                      THEN IF examples = <<>>
                           THEN Payload("no_examples", <<>>, <<>>, codeUrl)
                           ELSE Payload("code", <<>>, <<>>,
                                        header \o formatCodeOutput(examples, format, variantArg))
                      ELSE IF fetchUrl(fallback).state = "resolved"
                      THEN Payload("documentation", <<>>, <<>>,
                                   Take(fetchUrl(fallback).data, 2000))
                      ELSE Payload("fetch_error", <<>>, <<>>, <<>>)

\* getComponentCode of the legacy servers: component.toLowerCase() raises on
\* a value that is not a string; fetchUrl(undefined) rejects
GetComponentCodeLegacy(components, component, page) ==
    IF component.type # "string" THEN Thrown
    ELSE LET key == trim(toLowerCase(component.value))
         IN  IF ~Truthy(components, key)
             THEN Payload("not_found", <<>>, Take(ObjectKeys(components), 10), <<>>)
             ELSE IF HasOwn(components, key) /\ fetchUrl(page).state = "resolved"
             THEN Payload("page", <<>>, <<>>, fetchUrl(page).data)
             ELSE Payload("fetch_error", <<>>, <<>>, <<>>)

getComponentCode(v, components, tech, component, variantArg, page, fallback) ==
    IF v = "current"
    THEN GetComponentCodeCurrent(components, tech, component, variantArg, page, fallback)
    ELSE GetComponentCodeLegacy(components, component, page)

\* getComponentProps: only the current server tests the argument; comp.url
\* of a function of Object.prototype is undefined and .replace raises
getComponentProps(v, components, component, page) ==
    IF v = "current" /\ NoQuery(component)
    THEN Payload("missing_argument", <<>>, <<>>, <<>>)
    ELSE IF component.type # "string" THEN Thrown
    ELSE LET key == trim(toLowerCase(component.value))
         IN  IF ~Truthy(components, key)
             THEN Payload("not_found", <<>>, <<>>, <<>>)
             ELSE IF ~HasOwn(components, key) THEN Thrown
             ELSE LET comp == components[OwnIndex(components, key)].value
                      propsUrl == replace(replace(comp.url, CodigoMarker,
                                                  <<"-","p","r","o","p","s">>),
                                          CodigoMarker \o DashAngularMarker,
                                          <<"-","p","r","o","p","s">> \o DashAngularMarker)
                  IN  IF fetchUrl(page).state = "resolved"
                      THEN Payload("props", <<>>, <<>>,
                                   propsUrl \o <<"LF">> \o fetchUrl(page).data)
                      ELSE Payload("formats", <<>>, <<>>, comp.url)

\* the test of both loops of getGuideline: text.includes(sectionLower), and
\* in src/install-desy-mcp/server-desy.js sectionLower.includes(text)
SectionMatches(v, text, sectionLower) ==
    IF v = "stdio" THEN includes(sectionLower, toLowerCase(text))
    ELSE includes(toLowerCase(text), sectionLower)

\* the second loop of getGuideline: per category the first component whose
\* name or url matches; its page is fetched, and a failed fetch goes on
\* with the next category
GuidelineCandidates(v, categories, sectionLower) ==
    LET matching(cat) ==
            SelectSeq(cat.value.components,
                      LAMBDA c : \/ SectionMatches(v, c.name, sectionLower)
                                 \/ SectionMatches(v, c.url, sectionLower))
        withMatch == SelectSeq(categories, LAMBDA cat : matching(cat) # <<>>)
    IN  [i \in 1..Len(withMatch) |-> matching(withMatch[i])[1]]

\* getGuideline; failures is the number of page fetches that fail before
\* one succeeds
getGuideline(v, categories, section, failures) ==
    IF v = "current" /\ NoQuery(section)
    THEN Payload("missing_argument", <<>>, ObjectKeys(categories), <<>>)
    ELSE IF section.type # "string" THEN Thrown
    ELSE LET sectionLower == trim(toLowerCase(section.value))
             named == SelectSeq(categories,
                                LAMBDA cat : SectionMatches(v, cat.key, sectionLower))
             candidates == GuidelineCandidates(v, categories, sectionLower)
         IN  IF named # <<>>
             THEN Payload("category", <<>>,
                          [i \in 1..Len(Take(named[1].value.components, 30)) |->
                              named[1].value.components[i].name],
                          named[1].key)
             ELSE IF failures < Len(candidates)
             THEN Payload("page", <<>>, <<>>, candidates[failures + 1].url)
             ELSE Payload("not_found", <<>>, ObjectKeys(categories), <<>>)

(***************************************************************************)
(* normalizeComponentName on the variants of the alias table               *)
(***************************************************************************)
\* normalizeComponentName(input) is called
Canonicalize ==
    /\ ev.pc = "ready"
    /\ ev.fn = "normalizeComponentName"
    /\ ev' = [ev EXCEPT !.pc = "done", !.result = normalizeComponentName(ev.input)]
    /\ UNCHANGED <<variant, cache, clock, calls, out, hist, rs, http>>

InitAlias ==
    /\ variant = "current"
    /\ cache = EmptyCache
    /\ clock = StartTime
    /\ calls = [p \in Callers |-> Idle]
    /\ out = NoOutcome
    /\ hist = NoHistory
    /\ http = HttpOff
    /\ rs = RsIdle
    /\ \E g \in 1..Len(COMPONENT_ALIASES) :
          \E a \in 1..Len(COMPONENT_ALIASES[g].aliases) :
             ev = [pc |-> "ready", fn |-> "normalizeComponentName",
                   input |-> COMPONENT_ALIASES[g].aliases[a], result |-> NoKey]

NextAlias == Canonicalize

SpecAlias == InitAlias /\ [][NextAlias]_vars

(***************************************************************************)
(* searchComponents on catalogs longer than a page                         *)
(***************************************************************************)
MaxCatalog == 103

RECURSIVE Decimal(_)
Decimal(n) ==
    LET digit == <<"0","1","2","3","4","5","6","7","8","9">>[(n % 10) + 1]
    IN  IF n < 10 THEN <<digit>> ELSE Append(Decimal(n \div 10), digit)

\* the n-th component line of the index: Modal, Boton (with its accent),
\* then C3, C4, ...
CatalogLine(n) ==
    Tail(ComponentLine(IF n = 1 THEN <<"M","o","d","a","l">>
                       ELSE IF n = 2 THEN <<"B","o","t","o'","n">>
                       ELSE <<"C">> \o Decimal(n)))

Queries ==
    { [type |-> "undefined"], [type |-> "number"] } \cup
    { [type |-> "string", value |-> q] : q \in { <<>>, <<"c">>, <<"C","1">>, <<"c","2">>,
                               <<"m","o","d","a","l">>, <<"o">>, <<"z","z","z">>,
                               <<"b","o","t","o","n">>, <<"B","O","T">>,
                               <<"d","i","a","l","o","g">>,
                               \* a query that contains the keys c3 to c23
                               <<"c","3","c","4","c","5","c","6","c","7","c","8","c","9","c","1","0","c","1","1","c","1","2","c","1","3","c","1","4","c","1","5","c","1","6","c","1","7","c","1","8","c","1","9","c","2","0","c","2","1","c","2","2","c","2","3">> } }

\* the parser reads the next component line of the index
ReadCatalogLine ==
    /\ ev.pc = "reading"
    /\ ev.fn = "searchComponents"
    /\ Len(ev.st.components) < MaxCatalog
    /\ ev' = [ev EXCEPT !.st = ParseLine(variant, @, CatalogLine(Len(@.components) + 1))]
    /\ UNCHANGED <<variant, cache, clock, calls, out, hist, rs, http>>

\* search_components is called on the parsed catalog
Search(query) ==
    /\ ev.pc = "reading"
    /\ ev.fn = "searchComponents"
    /\ ev' = [ev EXCEPT !.pc = "done",
                        !.query = query,
                        !.result = searchComponents(variant, ev.st.components, query)]
    /\ UNCHANGED <<variant, cache, clock, calls, out, hist, rs, http>>

InitSearch ==
    /\ variant \in Variants
    /\ cache = EmptyCache
    /\ clock = StartTime
    /\ calls = [p \in Callers |-> Idle]
    /\ out = NoOutcome
    /\ hist = NoHistory
    /\ http = HttpOff
    /\ rs = RsIdle
    /\ ev = [pc |-> "reading", fn |-> "searchComponents", st |-> ParserStart,
             query |-> [type |-> "undefined"],
             result |-> [threw |-> FALSE, results |-> <<>>]]

NextSearch ==
    \/ ReadCatalogLine
    \/ \E query \in Queries : Search(query)

SpecSearch == InitSearch /\ [][NextSearch]_vars

(***************************************************************************)
(* The tool bodies on catalogs with more sections than any listing shows   *)
(***************************************************************************)
MaxSections == 32

\* the n-th section of the index: a heading G<n> and one component line
SectionLines(n) == << <<"#","#"," ","G">> \o Decimal(n), CatalogLine(n) >>

Arguments ==
    { [type |-> "undefined"], [type |-> "number"] } \cup
    { [type |-> "string", value |-> a] :
        a \in { <<>>, <<"z","z","z">>, <<"m","o","d","a","l">>, <<"C","3">>,
                <<"m","o","d","x">>, <<"d","i","a","l","o","g">>,
                <<"c","o","n","s","t","r","u","c","t","o","r">>, <<"g","2">> } }

\* what the fetch of a component's page can answer: a page with one example,
\* a page without examples, or an error
PageResponses ==
    { [kind |-> "response", status |-> 200,
       body |-> <<"#","#","#"," ","A","LF">> \o FenceHtml \o <<"LF","<","a",">","LF">> \o FenceEnd],
      [kind |-> "response", status |-> 200, body |-> <<"n","o","n","e">>],
      [kind |-> "error", status |-> 0, body |-> <<>>] }

MaxFailures == 2

\* the parser reads the next section of the index
ReadSection ==
    /\ ev.pc = "reading"
    /\ Len(ev.st.components) < MaxSections
    /\ ev' = [ev EXCEPT !.st =
                 ParseLines(variant, @, SectionLines(Len(@.components) + 1))]
    /\ UNCHANGED <<variant, cache, clock, calls, out, hist, rs, http>>

\* get_component_code_<tech> is called and getComponentCode runs on the catalog
GetComponentCode(tech, component, variantFilter, page, fallback) ==
    /\ ev.pc = "reading"
    /\ ev' = [ev EXCEPT !.pc = "done", !.fn = "getComponentCode",
                        !.tech = tech, !.arg = component, !.filter = variantFilter,
                        !.page = page, !.fallback = fallback,
                        !.result = getComponentCode(variant, ev.st.components, tech,
                                       component, variantFilter, page, fallback)]
    /\ UNCHANGED <<variant, cache, clock, calls, out, hist, rs, http>>

\* get_component_props is called
GetComponentProps(component, page) ==
    /\ ev.pc = "reading"
    /\ ev' = [ev EXCEPT !.pc = "done", !.fn = "getComponentProps",
                        !.arg = component, !.page = page,
                        !.result = getComponentProps(variant, ev.st.components,
                                                     component, page)]
    /\ UNCHANGED <<variant, cache, clock, calls, out, hist, rs, http>>

\* get_guideline is called
GetGuideline(section, failures) ==
    /\ ev.pc = "reading"
    /\ ev' = [ev EXCEPT !.pc = "done", !.fn = "getGuideline",
                        !.arg = section, !.failures = failures,
                        !.result = getGuideline(variant, ev.st.categories,
                                                section, failures)]
    /\ UNCHANGED <<variant, cache, clock, calls, out, hist, rs, http>>

InitPayload ==
    /\ variant \in Variants
    /\ cache = EmptyCache
    /\ clock = StartTime
    /\ calls = [p \in Callers |-> Idle]
    /\ out = NoOutcome
    /\ hist = NoHistory
    /\ http = HttpOff
    /\ rs = RsIdle
    /\ ev = [pc |-> "reading", fn |-> "parseLlmsTxt", st |-> ParserStart,
             tech |-> "none", arg |-> [type |-> "undefined"], filter |-> <<>>,
             page |-> [kind |-> "none"], fallback |-> [kind |-> "none"],
             failures |-> 0, result |-> Payload("none", <<>>, <<>>, <<>>)]

NextPayload ==
    \/ ReadSection
    \/ \E tech \in {"html", "nunjucks", "angular"}, component \in Arguments,
          variantFilter \in { <<>>, <<"z">> }, page \in PageResponses,
          fallback \in PageResponses :
          GetComponentCode(tech, component, variantFilter, page, fallback)
    \/ \E component \in Arguments, page \in PageResponses :
          GetComponentProps(component, page)
    \/ \E section \in Arguments, failures \in 0..MaxFailures :
          GetGuideline(section, failures)

SpecPayload == InitPayload /\ [][NextPayload]_vars

(***************************************************************************)
(* The HTTP layer of src/server-desy.js: the `sessions` Map, the sweep     *)
(* that setInterval runs every five minutes, the /mcp handlers.            *)
(*   sessions  the Map: session id -> lastAccess                           *)
(*   closing   the DELETE handlers suspended at `await transport.close()`  *)
(*   issued    how many ids generateSessionId has returned                 *)
(*   timerDue  the interval has elapsed and cleanupSessions has not run    *)
(*   step, header, removed: the handler that ran last, the session id its  *)
(*   request carried and the sessions it removed (observation only)        *)
(***************************************************************************)
SESSION_TTL_MS == 30 * 60 * 1000
SweepIntervalMs == 5 * 60 * 1000
\* how many sweep intervals of time are observed
MaxSweeps == 8
\* how many sessions are created: generateSessionId never repeats an id
MaxSessions == 2

\* the n-th id that crypto.randomUUID() returns
SessionId(n) == <<"s1", "s2", "s3", "s4">>[n]
SessionIds == { SessionId(n) : n \in 1..MaxSessions }
\* the mcp-session-id header of a request: absent, or an id
Headers == {"none"} \cup SessionIds

Without(map, ids) == [id \in DOMAIN map \ ids |-> map[id]]

SessionExpired_atTtl(now, lastAccess) == now - lastAccess >= SESSION_TTL_MS

\* now - session.lastAccess > SESSION_TTL_MS
SessionExpired(now, lastAccess) == now - lastAccess > SESSION_TTL_MS

\* time passes by one interval, and the timer of setInterval elapses
Wait ==
    /\ clock < StartTime + MaxSweeps * SweepIntervalMs
    /\ clock' = clock + SweepIntervalMs
    /\ http' = [http EXCEPT !.timerDue = TRUE, !.step = "wait",
                             !.header = "none", !.removed = {}]
    /\ UNCHANGED <<variant, cache, calls, out, hist, rs, ev>>

\* the timer callback: every session idle for longer than the TTL is deleted
cleanupSessions ==
    LET expired == { id \in DOMAIN http.sessions :
                        SessionExpired(clock, http.sessions[id]) }
    IN  /\ http.pc = "listening"
        /\ http.timerDue
        /\ http' = [http EXCEPT !.sessions = Without(@, expired), !.timerDue = FALSE,
                                 !.step = "sweep", !.header = "none",
                                 !.removed = expired]
        /\ UNCHANGED <<variant, cache, clock, calls, out, hist, rs, ev>>

\* POST /mcp or GET /mcp with the given mcp-session-id header
handleMcpRequest(method, header) ==
    /\ http.pc = "listening"
    /\ IF header \in DOMAIN http.sessions
       \* session.lastAccess = Date.now()
       THEN http' = [http EXCEPT !.sessions[header] = clock, !.step = "request",
                                 !.header = header, !.removed = {}]
       ELSE IF method = "GET"
       \* 400, "Session not found. Send POST first."
       THEN http' = [http EXCEPT !.step = "rejected", !.header = header,
                                 !.removed = {}]
       \* a new session under a fresh id
       ELSE /\ http.issued < MaxSessions
            /\ http' = [http EXCEPT
                           !.sessions = (SessionId(http.issued + 1) :> clock) @@ @,
                           !.issued = @ + 1, !.step = "created",
                           !.header = header, !.removed = {}]
    /\ UNCHANGED <<variant, cache, clock, calls, out, hist, rs, ev>>

\* DELETE /mcp up to `await session.transport.close?.()`; for an unknown id
\* the handler answers at once
DeleteBegin(header) ==
    /\ http.pc = "listening"
    /\ header \notin http.closing
    /\ http' = [http EXCEPT
                   !.closing = IF header \in DOMAIN http.sessions
                               THEN @ \cup {header} ELSE @,
                   !.step = "delete_begin", !.header = header, !.removed = {}]
    /\ UNCHANGED <<variant, cache, clock, calls, out, hist, rs, ev>>

\* DELETE /mcp after the await: sessions.delete(sessionId)
DeleteEnd(header) ==
    /\ http.pc = "listening"
    /\ header \in http.closing
    /\ http' = [http EXCEPT !.sessions = Without(@, {header}),
                             !.closing = @ \ {header},
                             !.step = "delete_end", !.header = header,
                             !.removed = {header} \cap DOMAIN http.sessions]
    /\ UNCHANGED <<variant, cache, clock, calls, out, hist, rs, ev>>

InitSessions ==
    /\ variant = "http"
    /\ cache = EmptyCache
    /\ clock = StartTime
    /\ calls = [p \in Callers |-> Idle]
    /\ out = NoOutcome
    /\ hist = NoHistory
    /\ rs = RsIdle
    /\ ev = EvIdle
    /\ http = [pc |-> "listening", sessions |-> [id \in {} |-> 0], closing |-> {}, issued |-> 0,
               timerDue |-> FALSE, step |-> "none", header |-> "none", removed |-> {}]

NextSessions ==
    \/ Wait
    \/ cleanupSessions
    \/ \E method \in {"POST", "GET"}, header \in Headers : handleMcpRequest(method, header)
    \/ \E header \in Headers : DeleteBegin(header)
    \/ \E header \in SessionIds : DeleteEnd(header)

SpecSessions == InitSessions /\ [][NextSessions]_vars

(***************************************************************************)
(* Vocabulary of the properties                                            *)
(***************************************************************************)
\* this step completes the operation caller p had in flight
Completed(p) == calls[p].pc = "fetching" /\ calls'[p].pc = "idle"
\* this step starts a fetch for caller p
Issued(p) == calls[p].pc = "idle" /\ calls'[p].pc = "fetching"
\* this step is an operation served from the cache without a fetch
ServedAtOnce == out' # out /\ calls' = calls
\* the fetch failed: the promise rejected, or the try block raised in the parser
FailedHow == {"rejected", "parse_threw"}
\* the slot holds a catalog not older than 24 hours at instant t
Fresh(c, t) == c.data # Null /\ t - c.timestamp <= 24 * 60 * 60 * 1000
Is2xx(status) == status >= 200 /\ status <= 299

(***************************************************************************)
(* C1: a catalog get raises a fetch error only when the slot holds no      *)
(* catalog and its fetch fails (the slot as the failure finds it), and the *)
(* slot then stays empty; in every other case the get returns a catalog.   *)
(***************************************************************************)
C1_FetchErrorOnlyWhenEmptyAndFailed ==
    [][ /\ \A p \in Callers :
             Completed(p) =>
                /\ (out'.got = "throw") <=> (cache.data = Null /\ out'.how \in FailedHow)
                /\ (out'.got = "throw") => cache'.data = Null
                /\ (out'.got # "throw") => (out'.got = "return" /\ out'.data # Null)
        /\ ServedAtOnce => (out'.got = "return" /\ out'.data # Null)
      ]_vars

C1_Witness ==
    /\ out.op = "fetchLlmsTxt"
    /\ out.got = "throw"
    /\ out.how = "rejected"
    /\ cache.data = Null

(***************************************************************************)
(* C2: when the slot is populated and the fetch a get attempted fails, the *)
(* get returns the cached catalog and leaves catalog and timestamp as they *)
(* were.                                                                   *)
(***************************************************************************)
C2_FailedFetchServesStale ==
    [][ \A p \in Callers :
          (Completed(p) /\ calls[p].op = "fetchLlmsTxt"
                        /\ cache.data # Null /\ out'.how \in FailedHow) =>
             /\ out'.got = "return"
             /\ out'.data = cache.data
             /\ cache' = cache
      ]_vars

C2_Witness ==
    /\ out.op = "fetchLlmsTxt"
    /\ ~out.forceRefresh
    /\ out.how = "rejected"
    /\ out.got = "return"
    /\ cache.data # Null
    /\ out.data = cache.data

(***************************************************************************)
(* C3: get(false) on a populated entry not older than 24 h attempts no     *)
(* fetch and returns the cached catalog; on an older entry it attempts     *)
(* exactly one fetch during the call.                                      *)
(***************************************************************************)
C3_FreshNoFetchExpiredOneFetch ==
    [][ /\ \A p \in Callers :
             /\ (Issued(p) /\ calls'[p].op = "fetchLlmsTxt" /\ ~calls'[p].forceRefresh) =>
                   (~Fresh(cache, clock) /\ calls'[p].attempts = 1)
             /\ (Completed(p) /\ calls[p].op = "fetchLlmsTxt" /\ ~calls[p].forceRefresh) =>
                   out'.attempts = 1
        /\ (ServedAtOnce /\ out'.op = "fetchLlmsTxt" /\ ~out'.forceRefresh) =>
              /\ Fresh(cache, clock)
              /\ out'.attempts = 0
              /\ out'.got = "return"
              /\ out'.data = cache.data
      ]_vars

\* a get(false) was served from the cache, and later one is in flight for
\* the same entry, now older than 24 hours
C3_Witness ==
    /\ out.op = "fetchLlmsTxt" /\ ~out.forceRefresh /\ out.attempts = 0
    /\ \E p \in Callers :
          /\ calls[p].pc = "fetching"
          /\ calls[p].op = "fetchLlmsTxt"
          /\ ~calls[p].forceRefresh
          /\ calls[p].attempts = 1
          /\ cache.data = out.data
          /\ calls[p].now - cache.timestamp > CACHE_DURATION_MS

(***************************************************************************)
(* C4: given a populated cache, a refresh_cache whose fetch fails reports  *)
(* no error and leaves the previously cached catalog in the slot.          *)
(***************************************************************************)
C4_FailedRefreshKeepsCatalog ==
    [][ \A p \in Callers :
          (Completed(p) /\ calls[p].op = "refreshCache"
                        /\ calls[p].cleared # Null /\ out'.how \in FailedHow) =>
             /\ out'.kind = "success"
             /\ cache'.data = calls[p].cleared
      ]_vars

(***************************************************************************)
(* C5: once populated, the slot holds a catalog in every later state,      *)
(* except after a refresh_cache call whose own fetch has failed.           *)
(***************************************************************************)
C5_EmptyOnlyAfterFailedRefresh ==
    (hist.everPopulated /\ cache.data = Null) => hist.refreshFailed

(***************************************************************************)
(* C6: every refresh_cache call clears the slot, repopulates it and ends   *)
(* by returning {status, message}; when it returns "success" the slot      *)
(* holds the catalog its own fetch obtained.                               *)
(***************************************************************************)
C6_RefreshAlwaysRepopulates ==
    [][ \A p \in Callers :
          /\ (Issued(p) /\ calls'[p].op = "refreshCache") => cache'.data = Null
          /\ (Completed(p) /\ calls[p].op = "refreshCache") =>
                /\ out'.kind = "success"
                /\ out'.how = "resolved"
                /\ cache'.data # Null
                /\ cache'.data = out'.data
      ]_vars

(***************************************************************************)
(* C7, as claimed: whenever a catalog is stored, the stored timestamp is   *)
(* the instant at which the fetch delivered its result.                    *)
(***************************************************************************)
C7_TimestampIsDeliveryInstant ==
    [][ (cache' # cache /\ cache'.data # Null) => cache'.timestamp = clock ]_vars

(***************************************************************************)
(* C7, amended: the stored timestamp is the instant at which the get that  *)
(* stored the catalog was called, never later than the delivery; and no    *)
(* get(false) issued within 24 hours of the stored timestamp attempts a    *)
(* fetch.                                                                  *)
(***************************************************************************)
C7_TimestampIsCallInstant ==
    [][ /\ \A p \in Callers : Issued(p) => calls'[p].now = clock
        /\ (cache' # cache /\ cache'.data # Null) =>
              \E p \in Callers :
                 /\ Completed(p)
                 /\ cache'.timestamp = calls[p].now
                 /\ cache'.timestamp <= clock
        /\ \A p \in Callers :
             (Issued(p) /\ ~calls'[p].forceRefresh) =>
                ~(cache.data # Null /\ clock - cache.timestamp <= 24 * 60 * 60 * 1000)
      ]_vars

\* a get just stored the catalog its fetch delivered one tick after the call,
\* under the timestamp of the call
C7_Witness ==
    /\ out.op = "fetchLlmsTxt"
    /\ out.how = "resolved"
    /\ out.took > 0
    /\ cache.data # Null
    /\ cache.data = out.data
    /\ cache.timestamp = clock - out.took

(***************************************************************************)
(* C8: a response with a non-2xx status is handled like a transport error: *)
(* the get takes its failure branch (the stale catalog if populated, a     *)
(* fetch error if empty) and the body is not parsed and stored.            *)
(***************************************************************************)
C8_Non2xxIsAFailure ==
    [][ \A p \in Callers :
          (Completed(p) /\ out'.status # 0 /\ ~Is2xx(out'.status)) =>
             /\ cache' = cache
             /\ (cache.data # Null) => (out'.got = "return" /\ out'.data = cache.data)
             /\ (cache.data = Null) => out'.got = "throw"
      ]_vars

(***************************************************************************)
(* C9: every query operation (the eight tools) whose index fetch fails     *)
(* while the cache is empty ends by returning an error payload; the        *)
(* exception does not escape to its caller.                                *)
(***************************************************************************)
C9_ToolsCatchFetchFailure ==
    [][ \A p \in Callers :
          (Completed(p) /\ calls[p].op \in Tools
                        /\ cache.data = Null /\ out'.how \in FailedHow) =>
             /\ out'.got = "throw"
             /\ out'.kind = "error_payload"
      ]_vars

(***************************************************************************)
(* C10: exact match comes first in findComponentKey: whenever the query,   *)
(* up to case and surrounding whitespace, is a key of the catalog, the     *)
(* result is that very key.                                                *)
(***************************************************************************)
C10_ExactKeyWins ==
    rs.pc = "resolved" =>
        LET q == trim(toLowerCase(rs.searchTerm))
        IN  HasOwn(rs.components, q) => rs.result = Key(q)

(***************************************************************************)
(* C11: two queries that are registered variants of one alias group (for   *)
(* example "boton" with its accent and "button") resolve to the same       *)
(* result on every catalog.                                                *)
(***************************************************************************)
RegisteredIn(g, term) ==
    \E a \in 1..Len(COMPONENT_ALIASES[g].aliases) : COMPONENT_ALIASES[g].aliases[a] = term

C11_AliasVariantsAgree ==
    rs.pc = "resolved" =>
        \A other \in SearchTerms :
            (\E g \in 1..Len(COMPONENT_ALIASES) :
                RegisteredIn(g, rs.searchTerm) /\ RegisteredIn(g, other))
            => findComponentKey(rs.components, other) = rs.result

(***************************************************************************)
(* C12: findComponentKey returns null or a key that the catalog's          *)
(* component map holds, and null for the empty query.                      *)
(***************************************************************************)
C12_ResultIsACatalogKey ==
    rs.pc = "resolved" =>
        /\ rs.result.found => HasOwn(rs.components, rs.result.key)
        /\ rs.searchTerm = <<>> => ~rs.result.found

(***************************************************************************)
(* C13: parseLlmsTxt returns a catalog for every input document and never  *)
(* raises; an empty or whitespace-only document gives the empty catalog.   *)
(***************************************************************************)
C13_ParserNeverRaises ==
    (ev.pc = "done" /\ ev.fn = "parseLlmsTxt") =>
        /\ ~ev.result.threw
        /\ trim(ev.content) = <<>> =>
              (ev.result.categories = <<>> /\ ev.result.components = <<>>)

(***************************************************************************)
(* C14: the document made of the heading "## Componentes de formulario"    *)
(* and one bullet linking "Boton" (with its accent) to a url with the      *)
(* component path, the code marker, no angular marker and the suffix .md   *)
(* parses to one category holding one component, keyed by the lower-cased  *)
(* name, with hasHtml true and hasAngular false.                           *)
(***************************************************************************)
C14_HeadingAndMdBullet ==
    (ev.pc = "done" /\ ev.fn = "parseLlmsTxt"
                    /\ ev.content = JoinLines(<<HeadingLine, ComponentLineMd>>)) =>
        /\ ~ev.result.threw
        /\ Len(ev.result.categories) = 1
        /\ ev.result.categories[1].key = slice(HeadingLine, 3)
        /\ Len(ev.result.categories[1].value.components) = 1
        /\ ObjectKeys(ev.result.components) = << <<"b","o","t","o'","n">> >>
        /\ ev.result.components[1].value = ev.result.categories[1].value.components[1]
        /\ ev.result.components[1].value.hasHtml
        /\ ~ev.result.components[1].value.hasAngular

(***************************************************************************)
(* Vocabulary of the parser properties                                     *)
(***************************************************************************)
DocLines == split(ev.content, "LF")
IsHeadingLine(line) == startsWith(trim(line), H2Marker) \/ startsWith(trim(line), H3Marker)
HeadingText(line) ==
    IF startsWith(trim(line), H2Marker) THEN trim(slice(trim(line), 3))
    ELSE trim(slice(trim(line), 4))
\* the link of a line the parser of this server takes as a component
LineLink(line) ==
    IF ~IsHeadingLine(line) /\ IsBulletLine(variant, trim(line))
    THEN BulletLink(variant, trim(line))
    ELSE NoLink
IsComponentLine(i) == AcceptsLink(variant, LineLink(DocLines[i]))
LineKey(i) == toLowerCase(LineLink(DocLines[i]).text)
\* the text of the last heading before line j, empty when there is none
ActiveCategory(j) ==
    LET hs == { i \in 1..(j - 1) : IsHeadingLine(DocLines[i]) }
    IN  IF hs = {} THEN <<>>
        ELSE HeadingText(DocLines[CHOOSE i \in hs : \A h \in hs : h <= i])
\* the component list of category name holds a component with this url
ListedUnder(name, url) ==
    \E c \in 1..Len(ev.result.categories) :
        /\ ev.result.categories[c].key = name
        /\ \E k \in 1..Len(ev.result.categories[c].value.components) :
              ev.result.categories[c].value.components[k].url = url
Parsed_ok == ev.pc = "done" /\ ev.fn = "parseLlmsTxt" /\ ~ev.result.threw

(***************************************************************************)
(* C15: when two component lines have the same lower-cased name, the       *)
(* component map keeps the component of the first such line, and the later *)
(* component is still appended to the list of the category active at its   *)
(* line.                                                                   *)
(***************************************************************************)
C15_FirstSeenWins ==
    Parsed_ok =>
        \A i, j \in 1..Len(DocLines) :
            (i < j /\ IsComponentLine(i) /\ IsComponentLine(j) /\ LineKey(i) = LineKey(j)) =>
                LET same  == { n \in 1..Len(DocLines) :
                                  IsComponentLine(n) /\ LineKey(n) = LineKey(j) }
                    first == CHOOSE n \in same : \A o \in same : n <= o
                IN  /\ HasOwn(ev.result.components, LineKey(j))
                    /\ ev.result.components[OwnIndex(ev.result.components, LineKey(j))].value.url
                          = LineLink(DocLines[first]).url
                    /\ ActiveCategory(j) # <<>> =>
                          ListedUnder(ActiveCategory(j), LineLink(DocLines[j]).url)

(***************************************************************************)
(* C16: in every catalog the parser returns, a component of the component  *)
(* map that was parsed after a heading is in the component list of exactly *)
(* one category, the one its category field names; a component parsed      *)
(* before any heading (category "General") is in no list.                  *)
(***************************************************************************)
ListsHolding(component) ==
    { c \in 1..Len(ev.result.categories) :
        \E k \in 1..Len(ev.result.categories[c].value.components) :
            ev.result.categories[c].value.components[k] = component }

C16_MapComponentsAreListedOnce ==
    Parsed_ok =>
        \A n \in 1..Len(ev.result.components) :
            LET component == ev.result.components[n].value
                lists     == ListsHolding(component)
            IN  IF component.category = General
                THEN lists = {}
                ELSE /\ Cardinality(lists) = 1
                     /\ \A c \in lists : ev.result.categories[c].key = component.category

(***************************************************************************)
(* C17: the normalization the resolver applies to a query is idempotent,   *)
(* and two strings that differ only in the case or the diacritics of their *)
(* letters normalize to the same result.                                   *)
(***************************************************************************)
\* x and y have the same letters, position by position, up to case and accent
SameLetters(x, y) ==
    /\ Len(x) = Len(y)
    /\ \A i \in 1..Len(x) : StripChar(LowerChar(x[i])) = StripChar(LowerChar(y[i]))

C17_NormalizeIdempotent ==
    /\ (ev.pc = "twice" /\ ev.fn = "normalize") => ev.twice = ev.once
    /\ (ev.pc = "once" /\ ev.fn = "normalize") =>
          \A y \in InputStrings : SameLetters(ev.input, y) => NormalizedQuery(y) = ev.once

(***************************************************************************)
(* Vocabulary of the extractor properties                                  *)
(***************************************************************************)
PageDocLines == split(ev.markdown, "LF")
HeadingIndexes == { i \in 1..Len(PageDocLines) : IsExampleHeading(PageDocLines[i]) }
\* the lines between heading h and the next heading (or the end of the page)
RegionOf(h) ==
    { i \in (h + 1)..Len(PageDocLines) : \A g \in HeadingIndexes : g > h => i < g }
\* every line of the code is a line of the region of heading h
CodeFromRegion(code, h) ==
    code # <<>> =>
        \A n \in 1..Len(split(code, "LF")) :
            \E i \in RegionOf(h) : trim(PageDocLines[i]) = trim(split(code, "LF")[n])

(***************************************************************************)
(* C18: parseCodeBlocks emits the example blocks in the document order of  *)
(* their headings, and the code of an emitted block consists only of lines *)
(* that lie between the block's heading line and the next heading line.    *)
(***************************************************************************)
C18_BlocksKeepTheirOwnCode ==
    (ev.pc = "done" /\ ev.fn = "parseCodeBlocks") =>
        \E f \in [1..Len(ev.examples) -> HeadingIndexes] :
            /\ \A k, l \in 1..Len(ev.examples) : k < l => f[k] < f[l]
            /\ \A k \in 1..Len(ev.examples) :
                  /\ ev.examples[k].title = ExampleTitle(PageDocLines[f[k]])
                  /\ CodeFromRegion(ev.examples[k].html, f[k])
                  /\ CodeFromRegion(ev.examples[k].nunjucks, f[k])

(***************************************************************************)
(* C19: in formatCodeOutput a variant filter that matches no block title   *)
(* (the normalized title does not contain the normalized filter, nor the   *)
(* filter the title) has no effect: the output is the output without a     *)
(* filter.  A filter that matches some title restricts the output to the   *)
(* matching blocks.                                                        *)
(***************************************************************************)
MatchingBlocks ==
    SelectSeq(ev.examples,
              LAMBDA ex : \/ includes(stripDiacritics(toLowerCase(ex.title)),
                                      stripDiacritics(toLowerCase(ev.variant)))
                          \/ includes(stripDiacritics(toLowerCase(ev.variant)),
                                      stripDiacritics(toLowerCase(ex.title))))

C19_UnmatchedFilterHasNoEffect ==
    (ev.pc = "done" /\ ev.fn = "formatCodeOutput" /\ ev.variant # <<>>) =>
        IF MatchingBlocks = <<>>
        THEN ev.output = formatCodeOutput(ev.examples, ev.format, <<>>)
        ELSE ev.output = formatCodeOutput(MatchingBlocks, ev.format, <<>>)

\* a filter that matches none of two blocks, and the output shows a block
C19_Witness ==
    /\ ev.pc = "done"
    /\ ev.fn = "formatCodeOutput"
    /\ ev.variant # <<>>
    /\ Len(ev.examples) = 2
    /\ MatchingBlocks = <<>>
    /\ ev.output # NoExamplesMessage(ev.format)

(***************************************************************************)
(* C20: search_components answers every query, a missing or non-string     *)
(* query included, with a list of at most a page of results: 100 in the    *)
(* current server, 20 in the legacy servers.                               *)
(***************************************************************************)
C20_SearchReturnsAtMostAPage ==
    (ev.pc = "done" /\ ev.fn = "searchComponents") =>
        /\ ~ev.result.threw
        /\ Len(ev.result.results) <= PageSize(variant)

(***************************************************************************)
(* C21: search_components(q) returns every component whose name contains q *)
(* when both are compared without regard to case and diacritics, unless    *)
(* the page is full; so "boton" finds the component named Boton with an    *)
(* accent.                                                                 *)
(***************************************************************************)
NameContains(i) ==
    includes(stripDiacritics(toLowerCase(ev.st.components[i].value.name)),
             stripDiacritics(toLowerCase(ev.query.value)))

C21_SearchFindsEveryNameMatch ==
    (ev.pc = "done" /\ ev.fn = "searchComponents" /\ ev.query.type = "string") =>
        /\ ~ev.result.threw
        /\ \/ Len(ev.result.results) = PageSize(variant)
           \/ \A i \in 1..Len(ev.st.components) :
                 NameContains(i) =>
                    \E r \in 1..Len(ev.result.results) :
                       ev.result.results[r].canonicalName = ev.st.components[i].key

(***************************************************************************)
(* C22: a payload that reports a missing argument or a component or        *)
(* section that was not found lists at most a fixed number of catalog keys *)
(* or category names, whatever the size of the catalog: at most the 20     *)
(* keys and 5 suggestions of the largest truncated listing.                *)
(***************************************************************************)
C22_ErrorPayloadsAreBounded ==
    (ev.pc = "done" /\ ev.fn \in {"getComponentCode", "getComponentProps", "getGuideline"}
        /\ ev.result.kind \in {"missing_argument", "not_found"}) =>
        Len(ev.result.listed) + Len(ev.result.suggestions) <= 20 + 5

(***************************************************************************)
(* C23: getComponentCode, getComponentProps and getGuideline answer a      *)
(* missing or non-string argument with a payload that reports the missing  *)
(* argument, and never raise.                                              *)
(***************************************************************************)
C23_MissingArgumentIsReported ==
    (ev.pc = "done" /\ ev.fn \in {"getComponentCode", "getComponentProps", "getGuideline"}
        /\ ev.arg.type # "string") =>
        /\ ~ev.result.threw
        /\ ev.result.kind = "missing_argument"

(***************************************************************************)
(* C24: there is no single-flight guard: a get by an idle caller that      *)
(* finds the slot empty or expired can always start a fetch of its own,    *)
(* also while the fetch of another caller is in flight; so two fetches of  *)
(* the index can be in flight at once.                                     *)
(***************************************************************************)
C24_EveryMissStartsItsOwnFetch ==
    \A p \in Callers :
        (calls[p].pc = "idle" /\ ~ServesFromCache(FALSE, clock, cache)) =>
            ENABLED (CallGet(p, FALSE) /\ calls'[p].pc = "fetching"
                                       /\ calls'[p].attempts = 1)

\* two gets, both called on the same expired entry, each awaiting its fetch
C24_Witness ==
    /\ cache.data # Null
    /\ \A p \in Callers :
          /\ calls[p].pc = "fetching"
          /\ calls[p].op = "fetchLlmsTxt"
          /\ ~calls[p].forceRefresh
          /\ calls[p].attempts = 1
          /\ calls[p].now - cache.timestamp > CACHE_DURATION_MS

(***************************************************************************)
(* C25: while a get is between its read of the slot (which decided that a  *)
(* fetch is needed) and its write of the slot, no other operation reads or *)
(* writes the slot: no get or refresh of another caller starts, and no     *)
(* fetch of another caller settles.                                        *)
(***************************************************************************)
C25_NoInterleavingInReadThenWrite ==
    [][ \A p \in Callers :
          (calls[p].pc = "fetching" /\ calls'[p].pc = "fetching") =>
             (calls' = calls /\ cache' = cache /\ out' = out)
      ]_vars

(***************************************************************************)
(* C26: a fetch that never completes stalls only the request that issued   *)
(* it: while the fetch of caller c1 hangs, every operation of caller c2    *)
(* that awaits a fetch completes in the end, whatever c1 does.             *)
(***************************************************************************)
C26_OthersCompleteWhileOneHangs ==
    (calls["c2"].pc # "idle") ~> (calls["c2"].pc = "idle")

\* the fetch of c1 is still in flight, and a get that was called after it
\* has issued its own fetch, completed and stored its catalog
C26_Witness ==
    /\ calls["c1"].pc = "fetching"
    /\ calls["c2"].pc = "idle"
    /\ out.op = "fetchLlmsTxt"
    /\ out.attempts = 1
    /\ out.got = "return"
    /\ cache.data # Null
    /\ cache.timestamp > calls["c1"].now

(***************************************************************************)
(* C27: stale-while-revalidate: a get that finds a populated entry older   *)
(* than 24 hours is answered at once with the stale catalog, in the step   *)
(* that starts the refetch; and when that refetch succeeds it replaces the *)
(* entry.                                                                  *)
(***************************************************************************)
C27_StaleWhileRevalidate ==
    [][ \A p \in Callers :
          /\ (Issued(p) /\ calls'[p].op = "fetchLlmsTxt" /\ ~calls'[p].forceRefresh
                        /\ cache.data # Null) =>
                /\ clock - cache.timestamp > CACHE_DURATION_MS
                /\ out' # out
                /\ out'.op = "fetchLlmsTxt"
                /\ out'.got = "return"
                /\ out'.data = cache.data
          /\ (Completed(p) /\ calls[p].op = "fetchLlmsTxt" /\ out'.how = "resolved") =>
                cache'.data = out'.data
      ]_vars

(***************************************************************************)
(* C28: normalizeComponentName maps every variant listed in the alias      *)
(* table to the canonical key of a group that lists that variant.          *)
(***************************************************************************)
C28_VariantsResolveToTheirGroup ==
    (ev.pc = "done" /\ ev.fn = "normalizeComponentName") =>
        /\ ev.result.found
        /\ \E g \in 1..Len(COMPONENT_ALIASES) :
              /\ COMPONENT_ALIASES[g].canonical = ev.result.key
              /\ \E a \in 1..Len(COMPONENT_ALIASES[g].aliases) :
                    COMPONENT_ALIASES[g].aliases[a] = ev.input

(***************************************************************************)
(* C29: when the query is resolved by the alias steps and the catalog      *)
(* holds, for a variant k of a matched alias group, both the key k and the *)
(* key "k (html)", findComponentKey does not return the plain key k: it    *)
(* prefers the key with the format suffix.                                 *)
(***************************************************************************)
C29_SuffixedKeyPreferred ==
    (rs.pc = "resolved" /\ rs.searchTerm # <<>>
        /\ ~Truthy(rs.components, NormalizedQuery(rs.searchTerm))) =>
        \A g \in 1..Len(COMPONENT_ALIASES) :
           \A a \in 1..Len(NormalizedAliases[g]) :
              ( /\ IsMatch(g, normalizeComponentName(rs.searchTerm),
                           NormalizedQuery(rs.searchTerm))
                /\ HasOwn(rs.components, NormalizedAliases[g][a])
                /\ HasOwn(rs.components, NormalizedAliases[g][a] \o HtmlSuffix) )
              => /\ rs.result.found
                 /\ rs.result.key # NormalizedAliases[g][a]

(***************************************************************************)
(* C30: every level-2 or level-3 heading makes its trimmed text the        *)
(* current category.  A category record exists for exactly the heading     *)
(* texts of the document, one per name; it keeps the description that the  *)
(* first heading of that name gave it; and every component line is listed  *)
(* under the heading that precedes it, whatever the level of that heading. *)
(***************************************************************************)
FirstHeadingOf(name) ==
    CHOOSE i \in 1..Len(DocLines) :
        /\ IsHeadingLine(DocLines[i]) /\ HeadingText(DocLines[i]) = name
        /\ \A h \in 1..(i - 1) :
              ~(IsHeadingLine(DocLines[h]) /\ HeadingText(DocLines[h]) = name)

C30_HeadingsSetTheCategory ==
    Parsed_ok =>
        /\ \A i \in 1..Len(DocLines) :
              (IsHeadingLine(DocLines[i]) /\ HeadingText(DocLines[i]) # <<>>) =>
                 HasOwn(ev.result.categories, HeadingText(DocLines[i]))
        /\ \A c \in 1..Len(ev.result.categories) :
              LET name == ev.result.categories[c].key
              IN  /\ \E i \in 1..Len(DocLines) :
                        IsHeadingLine(DocLines[i]) /\ HeadingText(DocLines[i]) = name
                  /\ \A d \in 1..Len(ev.result.categories) :
                        ev.result.categories[d].key = name => d = c
                  /\ ev.result.categories[c].value.description =
                        (IF startsWith(trim(DocLines[FirstHeadingOf(name)]), H2Marker)
                         THEN H2DescriptionPrefix ELSE H3DescriptionPrefix)
                        \o toLowerCase(name)
        /\ \A j \in 1..Len(DocLines) :
              (IsComponentLine(j) /\ ActiveCategory(j) # <<>>) =>
                 ListedUnder(ActiveCategory(j), LineLink(DocLines[j]).url)

(***************************************************************************)
(* Vocabulary of the fence properties, over the lines `doc` of a page.  A  *)
(* closed fence is an opening line of its kind and the next line that is a *)
(* bare fence, with no opening line between them; it is closed under the   *)
(* latest heading above its closing line.                                  *)
(***************************************************************************)
OpensFence(kind, line) ==
    IF kind = "html" THEN startsWith(line, FenceHtml)
    ELSE startsWith(line, FenceJs) \/ startsWith(line, FenceJavascript)
FenceLines(doc) ==
    { i \in 1..Len(doc) :
        doc[i] = FenceEnd \/ OpensFence("html", doc[i]) \/ OpensFence("nunjucks", doc[i]) }
\* the pairs <<opening line, closing line>> of the fences of a kind closed
\* under heading h, the headings being the lines `heads`
ClosedFences(doc, heads, marks, kind, h) ==
    { oc \in marks \X marks :
        /\ oc[1] < oc[2]
        /\ h < oc[2]
        /\ \A g \in heads : g > h => oc[2] < g
        /\ OpensFence(kind, doc[oc[1]])
        /\ doc[oc[2]] = FenceEnd
        /\ \A i \in marks : ~(oc[1] < i /\ i < oc[2]) }
FenceContent(doc, oc) == trim(JoinLines(SubSeq(doc, oc[1] + 1, oc[2] - 1)))
LastFenceCode(doc, heads, marks, kind, h) ==
    LET closed == ClosedFences(doc, heads, marks, kind, h)
    IN  IF closed = {} THEN <<>>
        ELSE FenceContent(doc, CHOOSE oc \in closed : \A other \in closed : other[2] <= oc[2])
\* what is expected under every heading: the code of the last fences
ExpectedCode(doc) ==
    LET heads == { i \in 1..Len(doc) : IsExampleHeading(doc[i]) }
        marks == FenceLines(doc)
    IN  [h \in heads |->
           [title |-> ExampleTitle(doc[h]),
            html |-> LastFenceCode(doc, heads, marks, "html", h),
            nunjucks |-> LastFenceCode(doc, heads, marks, "nunjucks", h)]]
HeadingsWithCode(expected) ==
    { h \in DOMAIN expected : expected[h].html # <<>> \/ expected[h].nunjucks # <<>> }

(***************************************************************************)
(* C31: within one example block every closing fence overwrites the        *)
(* block's field of the kind of the fence being closed: after extraction   *)
(* the markup (template) code of an emitted block is the trimmed content   *)
(* of the last markup (template) fence closed under its heading, and the   *)
(* earlier fences of that kind contribute nothing.                         *)
(***************************************************************************)
C31_LastFenceOfAKindWins ==
    (ev.pc = "done" /\ ev.fn = "parseCodeBlocks") =>
        LET expected == ExpectedCode(split(ev.markdown, "LF"))
        IN  \E f \in [1..Len(ev.examples) -> DOMAIN expected] :
               /\ \A k, l \in 1..Len(ev.examples) : k < l => f[k] < f[l]
               /\ \A k \in 1..Len(ev.examples) : ev.examples[k] = expected[f[k]]

\* an emitted block under whose heading two fences of one kind with
\* different code were closed
C31_Witness ==
    /\ ev.pc = "done"
    /\ ev.fn = "parseCodeBlocks"
    /\ Len(ev.examples) > 0
    /\ LET doc == split(ev.markdown, "LF")
           heads == { i \in 1..Len(doc) : IsExampleHeading(doc[i]) }
       IN  \E h \in heads, kind \in {"html", "nunjucks"} :
             \E a, b \in ClosedFences(doc, heads, FenceLines(doc), kind, h) :
                /\ a[2] < b[2]
                /\ FenceContent(doc, a) # <<>>
                /\ FenceContent(doc, b) # <<>>
                /\ FenceContent(doc, a) # FenceContent(doc, b)
                /\ \E k \in 1..Len(ev.examples) :
                      ev.examples[k][kind] = FenceContent(doc, b)

(***************************************************************************)
(* C32: every example block that parseCodeBlocks emits carries markup or   *)
(* template code that is not empty.  A heading with no code is not         *)
(* emitted, fences that appear before the first heading and fences never   *)
(* closed contribute nothing, and the block under way at the end of the    *)
(* input is emitted under the same rule: the blocks emitted are as many as *)
(* the headings under which, on the page from its first heading on, the    *)
(* last closed fence of some kind has code.                                *)
(***************************************************************************)
C32_EmittedBlocksCarryCode ==
    (ev.pc = "done" /\ ev.fn = "parseCodeBlocks") =>
        LET doc == split(ev.markdown, "LF")
            heads == { i \in 1..Len(doc) : IsExampleHeading(doc[i]) }
            first == CHOOSE h \in heads : \A g \in heads : h <= g
        IN  /\ \A k \in 1..Len(ev.examples) :
                  ev.examples[k].html # <<>> \/ ev.examples[k].nunjucks # <<>>
            /\ heads = {} => ev.examples = <<>>
            /\ heads # {} =>
                  Len(ev.examples) =
                     Cardinality(HeadingsWithCode(ExpectedCode(SubSeq(doc, first, Len(doc)))))

(***************************************************************************)
(* C33: the match type of every result of search_components tells the      *)
(* strategy that found it.  A result is tagged "exact" only when the       *)
(* normalized query (lower case, trimmed, diacritics dropped) equals the   *)
(* component's catalog key, "alias" only when an alias of the group of its *)
(* key contains the query or is contained in it, and "partial" only when   *)
(* its key, name or description contains the query.                        *)
(***************************************************************************)
C33_MatchTypeTellsTheStrategy ==
    (ev.pc = "done" /\ ev.fn = "searchComponents" /\ ~NoQuery(ev.query)
       /\ ~ev.result.threw) =>
        LET components == ev.st.components
            queryLower == stripDiacritics(toLowerCase(ev.query.value))
        IN  \A r \in 1..Len(ev.result.results) :
               LET key == ev.result.results[r].canonicalName
                   tag == ev.result.results[r].matchType
               IN  /\ tag \in {"exact", "alias", "partial"}
                   /\ HasOwn(components, key)
                   /\ tag = "exact" => key = NormalizedQuery(ev.query.value)
                   /\ tag = "alias" =>
                         \E g \in 1..Len(COMPONENT_ALIASES) :
                            /\ COMPONENT_ALIASES[g].canonical = key
                            /\ \E a \in 1..Len(NormalizedAliases[g]) :
                                  \/ includes(NormalizedAliases[g][a], queryLower)
                                  \/ includes(queryLower, NormalizedAliases[g][a])
                   /\ tag = "partial" =>
                         LET comp == components[OwnIndex(components, key)].value
                         IN  \/ includes(stripDiacritics(key), queryLower)
                             \/ includes(stripDiacritics(toLowerCase(comp.name)), queryLower)
                             \/ includes(stripDiacritics(toLowerCase(comp.description)),
                                         queryLower)

(***************************************************************************)
(* C34: the two fields of the cache agree in every reachable state: the    *)
(* slot holds no catalog exactly when its timestamp is 0.  Every write     *)
(* replaces both together: a write either empties the slot and zeroes the  *)
(* timestamp, or stores a catalog with the instant of the call that        *)
(* fetched it.                                                             *)
(***************************************************************************)
C34_CacheFieldsAgree ==
    /\ [](cache.data = Null <=> cache.timestamp = 0)
    /\ [][ cache' # cache =>
             \/ /\ cache' = EmptyCache
                /\ \E p \in Callers : Issued(p) /\ calls'[p].op = "refreshCache"
             \/ \E p \in Callers :
                   /\ Completed(p)
                   /\ cache'.data # Null
                   /\ cache'.data = out'.data
                   /\ cache'.timestamp = calls[p].now
         ]_vars

\* refreshCache has emptied a slot that held a catalog, and its fetch is
\* still under way
C34_Witness ==
    /\ hist.everPopulated
    /\ cache = EmptyCache
    /\ \E p \in Callers :
          /\ calls[p].pc = "fetching"
          /\ calls[p].op = "refreshCache"
          /\ calls[p].cleared # Null

(***************************************************************************)
(* C35: under any interleaving of concurrent gets, with no refresh_cache,  *)
(* the timestamp of the cache never decreases, and the cached catalog is   *)
(* never replaced by the result of a get that started earlier than the get *)
(* whose result is stored.                                                 *)
(***************************************************************************)
C35_CacheNeverGoesBack ==
    [][ /\ cache'.timestamp >= cache.timestamp
        /\ \A p \in Callers :
              (Completed(p) /\ cache.data # Null /\ out'.how = "resolved") =>
                 calls[p].now >= cache.timestamp
      ]_vars

(***************************************************************************)
(* C36: name resolution is the same in both tools: for every catalog and   *)
(* every component name, get_component_props finds a component if and only *)
(* if get_component_code_<format> finds one, and both pick the same entry  *)
(* of the catalog (seen in the URLs the two payloads name when the         *)
(* component's page has no content).                                       *)
(***************************************************************************)
C36_BothToolsResolveAlike ==
    (ev.pc = "done" /\ ev.fn = "getComponentProps" /\ ev.arg.type = "string") =>
        \A tech \in {"html", "nunjucks", "angular"} :
            LET failed == [kind |-> "error", status |-> 0, body |-> <<>>]
                blank  == [kind |-> "response", status |-> 200, body |-> <<"n","o","n","e">>]
                props  == getComponentProps(variant, ev.st.components, ev.arg, failed)
                code   == getComponentCode(variant, ev.st.components, tech, ev.arg,
                                           <<>>, blank, failed)
                found(r) == r.kind \notin {"missing_argument", "not_found"}
            IN  (~ev.result.threw /\ ~code.threw) =>
                   /\ found(ev.result) <=> found(code)
                   /\ (found(props) /\ found(code) /\ variant = "current") =>
                         code.text = CodeUrl(props.text, tech)

(***************************************************************************)
(* Vocabulary of the formatter properties                                  *)
(***************************************************************************)
\* the example carries code in the format asked for
CarriesCode(ex) == (IF ev.format = "html" THEN ex.html ELSE ex.nunjucks) # <<>>
\* the blocks left after the variant filter: the matching ones, or all of
\* them when there is no filter or nothing matches
SurvivingBlocks ==
    IF ev.variant # <<>> /\ MatchingBlocks # <<>> THEN MatchingBlocks ELSE ev.examples

(***************************************************************************)
(* C37, as stated: formatCodeOutput returns the fixed "no examples found"  *)
(* message if and only if no block of the extracted sequence carries code  *)
(* in the target format, whether or not a variant filter is supplied.      *)
(***************************************************************************)
C37_MessageIffNoBlockCarriesCode ==
    (ev.pc = "done" /\ ev.fn = "formatCodeOutput") =>
        (ev.output = NoExamplesMessage(ev.format)
           <=> \A k \in 1..Len(ev.examples) : ~CarriesCode(ev.examples[k]))

(***************************************************************************)
(* C37, amended: formatCodeOutput returns the fixed "no examples found"    *)
(* message if and only if no block that survives the variant filter (the   *)
(* blocks whose title matches, or all blocks when no filter is supplied or *)
(* none matches) carries code in the target format.  Without a filter that *)
(* is: no block of the sequence carries such code.                         *)
(***************************************************************************)
C37_MessageIffNoSurvivingBlockCarriesCode ==
    (ev.pc = "done" /\ ev.fn = "formatCodeOutput") =>
        /\ ev.output = NoExamplesMessage(ev.format)
              <=> \A k \in 1..Len(SurvivingBlocks) : ~CarriesCode(SurvivingBlocks[k])
        /\ (\A k \in 1..Len(ev.examples) : ~CarriesCode(ev.examples[k]))
              => ev.output = NoExamplesMessage(ev.format)

\* the filter keeps a block without code in the format and drops one that
\* has it: the message is returned
C37_Witness ==
    /\ ev.pc = "done"
    /\ ev.fn = "formatCodeOutput"
    /\ ev.variant # <<>>
    /\ MatchingBlocks # <<>>
    /\ \E k \in 1..Len(ev.examples) : CarriesCode(ev.examples[k])
    /\ ev.output = NoExamplesMessage(ev.format)

(***************************************************************************)
(* C38: session eviction follows idleness only.  A sweep removes a session *)
(* exactly when the time since its last access exceeds 30 minutes; every   *)
(* POST or GET that carries the id of a known session sets that session's  *)
(* last access to the instant of the request; and a session leaves the     *)
(* table only by a DELETE that names it or by a sweep that finds it idle   *)
(* for more than 30 minutes, so a session accessed at least once every 30  *)
(* minutes is never removed but by DELETE.                                 *)
(***************************************************************************)
C38_EvictionFollowsIdleness ==
    [][ /\ http'.step = "sweep" =>
              \A id \in DOMAIN http.sessions :
                 id \notin DOMAIN http'.sessions <=> clock - http.sessions[id] > 30 * 60 * 1000
        /\ (http'.step \in {"request", "rejected", "created"}
              /\ http'.header \in DOMAIN http.sessions) =>
              /\ http'.header \in DOMAIN http'.sessions
              /\ http'.sessions[http'.header] = clock
        /\ \A id \in DOMAIN http.sessions \ DOMAIN http'.sessions :
              \/ http'.step = "delete_end" /\ http'.header = id
              \/ http'.step = "sweep" /\ clock - http.sessions[id] > 30 * 60 * 1000
        /\ \A id \in DOMAIN http.sessions \cap DOMAIN http'.sessions :
              http'.sessions[id] # http.sessions[id] =>
                 http'.step = "request" /\ http'.header = id
      ]_vars

\* a sweep has removed one session and kept another that has been idle for
\* exactly 30 minutes
C38_Witness ==
    /\ http.pc = "listening"
    /\ http.step = "sweep"
    /\ http.removed # {}
    /\ \E id \in DOMAIN http.sessions : clock - http.sessions[id] = SESSION_TTL_MS

====
